---- MODULE Spec2Model ----
(***************************************************************************)
(* Model of antidote's dependency container: the singleton cache, the      *)
(* re-entrant instantiation lock, the instantiation stack, the ordered     *)
(* provider list and the factories that resolve their own dependencies     *)
(* through the container while they run.                                   *)
(*                                                                         *)
(* Every thread runs DependencyContainer.__getitem__ / provide one         *)
(* statement at a time; a thread's position is a sequence of frames, one   *)
(* per provide() call that is active on that thread (a factory's           *)
(* dependencies are resolved by nested provide() calls).                   *)
(***************************************************************************)
EXTENDS Integers, Sequences, FiniteSets, TLC

\* ------------------------------------------------------------------ bounds
\* Number of top-level calls (get / set / delete / update) made in one run.
MaxOps == 3

\* ------------------------------------------------------------- the inputs
Threads == {"t1", "t2"}
NoThread == "none"

\* Dependency ids used by the callers.  "U" is registered nowhere.
Keys == {"S", "N", "A", "B", "C", "D", "P", "F", "U"}

\* Values handed to __setitem__ / update_singletons by the application.
UserValues == {"v1"}

\* Keys the application sets, deletes or updates directly.
SetKeys == {"S", "N", "U"}

\* A registered factory: the singleton flag of Factory, the dependencies its
\* injected arguments ask the container for (in argument order), and whether
\* its body raises.
Fac(singleton, needs, raises) ==
    [singleton |-> singleton, needs |-> needs, raises |-> raises]

\* The first FactoryProvider: a leaf singleton, the cycle A -> B -> A, C
\* which reaches the cycle after resolving S, and a singleton D built from S
\* and N (N is registered with the second provider only).
FactoryProvider1 ==
    [k \in {"S", "A", "B", "C", "D"} |->
        CASE k = "S" -> Fac(TRUE, <<>>, FALSE)
          [] k = "A" -> Fac(TRUE, <<"B">>, FALSE)
          [] k = "B" -> Fac(TRUE, <<"A">>, FALSE)
          [] k = "C" -> Fac(TRUE, <<"S", "A">>, FALSE)
          [] k = "D" -> Fac(TRUE, <<"S", "N">>, FALSE)]

\* The second FactoryProvider: a non-singleton leaf, a factory whose body
\* raises, a factory that needs S and the raising one, and a second answer
\* for S that the first provider shadows.
FactoryProvider2 ==
    [k \in {"N", "F", "P", "S"} |->
        CASE k = "N" -> Fac(FALSE, <<>>, FALSE)
          [] k = "F" -> Fac(TRUE, <<>>, TRUE)
          [] k = "P" -> Fac(TRUE, <<"S", "F">>, FALSE)
          [] k = "S" -> Fac(FALSE, <<>>, FALSE)]

\* Providers in the order the application registers them.
ProviderPool == <<FactoryProvider1, FactoryProvider2>>

\* ------------------------------------------------------------- the values
\* The object built by the n-th call of the factory that provider p holds
\* for key k: two instances are identical iff these agree.
Instance(k, p, n) == [tag |-> "inst", id |-> k, prov |-> p, n |-> n]
UserValue(v) == [tag |-> "user", id |-> v, prov |-> 0, n |-> 0]
SENTINEL == [tag |-> "sentinel", id |-> "", prov |-> 0, n |-> 0]
NoValue == [tag |-> "none", id |-> "", prov |-> 0, n |-> 0]
\* Marks, in the record of explicit operations, a key that was deleted.
Deleted == [tag |-> "deleted", id |-> "", prov |-> 0, n |-> 0]

\* An exception is the sequence of itself followed by its __cause__ chain.
Exc(type, key, path) == [type |-> type, key |-> key, path |-> path]
DependencyCycleError(path) == <<Exc("DependencyCycleError", "", path)>>
DependencyNotFoundError(k) == <<Exc("DependencyNotFoundError", k, <<>>)>>
FactoryError(k) == <<Exc("FactoryError", k, <<>>)>>
\* Faulty variant: raise DependencyInstantiationError(k), the cause dropped
DependencyInstantiationErrorNoCause(k, e) ==
    <<Exc("DependencyInstantiationError", k, <<>>)>>

\* raise DependencyInstantiationError(k) from e
DependencyInstantiationError(k, e) ==
    <<Exc("DependencyInstantiationError", k, <<>>)>> \o e

\* What a call produced.
Returned(v) == [status |-> "returned", value |-> v, exc |-> <<>>]
Raised(e) == [status |-> "raised", value |-> NoValue, exc |-> e]
Pending == [status |-> "pending", value |-> NoValue, exc |-> <<>>]

IsCycleError(out) ==
    out.status = "raised" /\ out.exc[1].type = "DependencyCycleError"

\* ------------------------------------------------------------- the state
VARIABLES
    providers,    \* DependencyContainer._providers
    singletons,   \* DependencyContainer._singletons
    lockOwner,    \* the thread holding _instantiation_lock, or NoThread
    lockCount,    \* recursion level of the RLock
    stack,        \* InstantiationStack._stack
    dependencies, \* InstantiationStack._dependencies
    frames,       \* per thread: the active provide() calls, outermost first
    res,          \* per thread: the outcome of its last finished __getitem__
    calls,        \* per key: how many times a factory body for it has run
    stored,       \* per thread: the keys its current (or last) container[k]
                  \* has written to _singletons
    explicit,     \* per key touched by set/update/delete: what the last of
                  \* them left (the value set, or Deleted)
    nops,         \* top-level calls made so far
    factories,    \* FactoryProvider._factories
    invoked,      \* the calls the providers have made to the registered
                  \* factories and getters, oldest first
    fres,         \* the outcome of the last call made on a provider or on
                  \* the container in front of it
    getters,      \* ResourceProvider._priority_sorted_getters_by_namespace
    tagged,       \* TagProvider._tagged_dependencies
    collection,   \* the TaggedDependencies object handed out, if any
    iters,        \* the generators made by TaggedDependencies.dependencies()
    methods,      \* the variable methods of a wire(...) call, which its
                  \* wire_methods closure rebinds
    class_dicts   \* per class: the __dict__ entries of its methods

\* The state of the providers, which the container's own statements never
\* touch.
pvars == <<factories, invoked, fres, getters, tagged, collection, iters,
          methods, class_dicts>>

\* The state of the threaded container that calls made on a provider alone
\* leave untouched.
idle == <<providers, lockOwner, lockCount, stack, dependencies, frames, res,
          calls, stored, explicit, methods, class_dicts>>

vars == <<providers, singletons, lockOwner, lockCount, stack, dependencies,
          frames, res, calls, stored, explicit, nops, pvars>>

\* One active provide(key) call.
\*   pc      where the call stands
\*   prov    index of the provider being asked
\*   need    index of the factory argument being injected
\*   pushed  whether instantiating(key) has pushed key
\*   asked   how many providers this call has consulted
\*   out     the outcome the call is leaving with
NewFrame(k) ==
    [key |-> k, pc |-> "check1", prov |-> 0, need |-> 0, pushed |-> FALSE,
     asked |-> 0, out |-> Pending]

\* No call has been made on the providers yet.
NoCall == [op |-> "none", key |-> "", factory |-> "", out |-> Pending]

\* The generators the caller of a TaggedDependencies object holds.
Iters == {"i1", "i2"}
\* A generator that was not made yet.  getter is the local variable of that
\* name: the getter the generator has popped and not yet called.
NoGenerator == [phase |-> "none", i |-> 0 - 1, yielded |-> <<>>, getter |-> ""]

\* No TaggedDependencies object has been made yet.
NoCollection ==
    [made |-> FALSE, name |-> "", instances |-> <<>>, getters |-> <<>>,
     tags |-> <<>>, lock |-> "", id |-> 0]

NoResult == [key |-> "", provide |-> Pending, get |-> Pending, asked |-> 0]

\* wire(...) was not called yet.
NoDecorator == [kind |-> "unset", names |-> <<>>, dependencies |-> "None"]

\* The classes of the application and the functions each one defines, by
\* name, with the number of times inject has wrapped each.
Classes == {"A", "B", "E"}
ClassDicts ==
    [cls \in Classes |->
        CASE cls = "A" -> [m \in {"f", "g"} |-> 0]
          [] cls = "B" -> [m \in {"h"} |-> 0]
          [] cls = "E" -> [m \in {} |-> 0]]

Init ==
    /\ providers = <<>>
    /\ singletons = <<>>
    /\ lockOwner = NoThread
    /\ lockCount = 0
    /\ stack = <<>>
    /\ dependencies = {}
    /\ frames = [t \in Threads |-> <<>>]
    /\ res = [t \in Threads |-> NoResult]
    /\ calls = [k \in Keys |-> 0]
    /\ stored = [t \in Threads |-> {}]
    /\ explicit = <<>>
    /\ nops = 0
    /\ factories = <<>>
    /\ invoked = <<>>
    /\ fres = NoCall
    /\ getters = <<>>
    /\ tagged = <<>>
    /\ collection = NoCollection
    /\ iters = [g \in Iters |-> NoGenerator]
    /\ methods = NoDecorator
    /\ class_dicts = ClassDicts

\* ------------------------------------------------------------- helpers
Top(t) == frames[t][Len(frames[t])]
Busy(t) == frames[t] /= <<>>
At(t, pc) == Busy(t) /\ Top(t).pc = pc

\* dict[key] = value
DictSet(d, k, v) == [x \in (DOMAIN d) \cup {k} |-> IF x = k THEN v ELSE d[x]]
\* del dict[key]
DictDel(d, k) == [x \in (DOMAIN d) \ {k} |-> d[x]]
\* Faulty variant: update_singletons replaces the cache by the mapping
DictUpdateReplaces(d, m) == m

\* dict.update(m)
DictUpdate(d, m) ==
    [x \in (DOMAIN d) \cup (DOMAIN m) |-> IF x \in DOMAIN m THEN m[x] ELSE d[x]]

\* Faulty variant: __getitem__ hands the sentinel to its caller
GetItemNoCheck(k, out) == out

\* __getitem__: the sentinel becomes DependencyNotFoundError.
GetItem(k, out) ==
    IF out.status = "returned" /\ out.value = SENTINEL
    THEN Raised(DependencyNotFoundError(k))
    ELSE out

\* _inject_kwargs in the frame of the factory being called, on the outcome
\* of container.provide(injection.dependency) for a required argument.
InjectKwargs(parent, k, out) ==
    IF out.status = "raised"
    THEN [parent EXCEPT !.pc = "pop", !.out = out]
    ELSE IF out.value = SENTINEL
    THEN [parent EXCEPT !.pc = "pop",
                        !.out = Raised(DependencyNotFoundError(k))]
    ELSE [parent EXCEPT !.need = @ + 1]

\* The top provide() call of thread t leaves with outcome out: a nested call
\* hands it to the factory that asked, the outermost to __getitem__.
FramesAfter(t, out) ==
    LET fs == frames[t]
        n == Len(fs)
    IN IF n = 1 THEN <<>>
       ELSE Append(SubSeq(fs, 1, n - 2), InjectKwargs(fs[n - 1], fs[n].key, out))

ResAfter(t, out) ==
    IF Len(frames[t]) = 1
    THEN [res EXCEPT ![t] = [key |-> Top(t).key, provide |-> out,
                             get |-> GetItem(Top(t).key, out),
                             asked |-> Top(t).asked]]
    ELSE res

SetTop(t, f) == [frames EXCEPT ![t] = [@ EXCEPT ![Len(@)] = f]]

\* ------------------------------------------------------------- actions
\* DependencyContainer.register_provider, during the single-threaded setup.
RegisterProvider ==
    /\ nops = 0
    /\ Len(providers) < Len(ProviderPool)
    /\ providers' = Append(providers, ProviderPool[Len(providers) + 1])
    /\ UNCHANGED <<singletons, lockOwner, lockCount, stack, dependencies,
                   frames, res, calls, stored, explicit, nops>>
    /\ UNCHANGED pvars

\* A thread enters container[k].
Call(t, k) ==
    /\ ~Busy(t)
    /\ nops < MaxOps
    /\ frames' = [frames EXCEPT ![t] = <<NewFrame(k)>>]
    /\ res' = [res EXCEPT ![t] = NoResult]
    /\ stored' = [stored EXCEPT ![t] = {}]
    /\ nops' = nops + 1
    /\ UNCHANGED <<providers, singletons, lockOwner, lockCount, stack,
                   dependencies, calls, explicit>>
    /\ UNCHANGED pvars

\* Faulty variant: no lookup before the lock: every call goes on to take the lock
ProvideFastPathNever(t) ==
    /\ At(t, "check1")
    /\ frames' = SetTop(t, [Top(t) EXCEPT !.pc = "lock"])
    /\ UNCHANGED res
    /\ UNCHANGED <<providers, singletons, lockOwner, lockCount, stack,
                   dependencies, calls, stored, explicit, nops>>
    /\ UNCHANGED pvars

\* provide: the first, unlocked lookup in _singletons.
ProvideFastPath(t) ==
    /\ At(t, "check1")
    /\ IF Top(t).key \in DOMAIN singletons
       THEN /\ frames' = [frames EXCEPT
                            ![t] = FramesAfter(t, Returned(singletons[Top(t).key]))]
            /\ res' = ResAfter(t, Returned(singletons[Top(t).key]))
       ELSE /\ frames' = SetTop(t, [Top(t) EXCEPT !.pc = "lock"])
            /\ UNCHANGED res
    /\ UNCHANGED <<providers, singletons, lockOwner, lockCount, stack,
                   dependencies, calls, stored, explicit, nops>>
    /\ UNCHANGED pvars

\* Faulty variant: a plain Lock in place of the RLock: the holder cannot take it again
AcquireLockNotReentrant(t) ==
    /\ At(t, "lock")
    /\ lockOwner = NoThread
    /\ lockOwner' = t
    /\ lockCount' = lockCount + 1
    /\ frames' = SetTop(t, [Top(t) EXCEPT !.pc = "push"])
    /\ UNCHANGED <<providers, singletons, stack, dependencies, res, calls,
                   stored, explicit, nops>>
    /\ UNCHANGED pvars

\* Faulty variant: the lock is taken without waiting for its holder
AcquireLockNoWait(t) ==
    /\ At(t, "lock")
    /\ lockOwner' = t
    /\ lockCount' = lockCount + 1
    /\ frames' = SetTop(t, [Top(t) EXCEPT !.pc = "push"])
    /\ UNCHANGED <<providers, singletons, stack, dependencies, res, calls,
                   stored, explicit, nops>>
    /\ UNCHANGED pvars

\* Faulty variant: one lock per key: a thread waits only for a holder that is
\* resolving the same key
AcquireLockPerKey(t) ==
    /\ At(t, "lock")
    /\ lockOwner \in {NoThread, t} \/ Top(t).key \notin dependencies
    /\ lockOwner' = t
    /\ lockCount' = lockCount + 1
    /\ frames' = SetTop(t, [Top(t) EXCEPT !.pc = "push"])
    /\ UNCHANGED <<providers, singletons, stack, dependencies, res, calls,
                   stored, explicit, nops>>
    /\ UNCHANGED pvars

\* with self._instantiation_lock: RLock.acquire
AcquireLock(t) ==
    /\ At(t, "lock")
    /\ lockOwner \in {NoThread, t}
    /\ lockOwner' = t
    /\ lockCount' = lockCount + 1
    /\ frames' = SetTop(t, [Top(t) EXCEPT !.pc = "push"])
    /\ UNCHANGED <<providers, singletons, stack, dependencies, res, calls,
                   stored, explicit, nops>>
    /\ UNCHANGED pvars

\* Faulty variant: push never finds the key among the keys in flight
InFlightNever(k) == FALSE

\* push: dependency_id in self._dependencies
InFlight(k) == k \in dependencies

RECURSIVE FirstIndex(_, _, _)
\* The first position at or after i where seq holds k (0 if none).
FirstIndex(seq, k, i) ==
    IF i > Len(seq) THEN 0
    ELSE IF seq[i] = k THEN i
    ELSE FirstIndex(seq, k, i + 1)

\* Faulty variant: the list starts at the first occurrence of the key
CyclePathFromFirst(k) ==
    SubSeq(stack, FirstIndex(stack, k, 1), Len(stack)) \o <<k>>

\* push: the list handed to DependencyCycleError
CyclePath(k) == stack \o <<k>>

\* Faulty variant: push sits inside the try, so the finally pops after a failed push
pushInsideTry(t) ==
    /\ At(t, "push")
    /\ IF InFlight(Top(t).key)
       THEN /\ frames' = SetTop(t, [Top(t) EXCEPT
                   !.pc = "pop",
                   !.out = Raised(DependencyCycleError(CyclePath(Top(t).key)))])
            /\ UNCHANGED <<stack, dependencies>>
       ELSE /\ stack' = Append(stack, Top(t).key)
            /\ dependencies' = dependencies \cup {Top(t).key}
            /\ frames' = SetTop(t, [Top(t) EXCEPT !.pc = "check2",
                                                  !.pushed = TRUE])
    /\ UNCHANGED <<providers, singletons, lockOwner, lockCount, res, calls,
                   stored, explicit, nops>>
    /\ UNCHANGED pvars

\* InstantiationStack.push, entered by instantiating(dependency_id)
push(t) ==
    /\ At(t, "push")
    /\ IF InFlight(Top(t).key)
       THEN /\ frames' = SetTop(t, [Top(t) EXCEPT
                   !.pc = "release",
                   !.out = Raised(DependencyCycleError(CyclePath(Top(t).key)))])
            /\ UNCHANGED <<stack, dependencies>>
       ELSE /\ stack' = Append(stack, Top(t).key)
            /\ dependencies' = dependencies \cup {Top(t).key}
            /\ frames' = SetTop(t, [Top(t) EXCEPT !.pc = "check2",
                                                  !.pushed = TRUE])
    /\ UNCHANGED <<providers, singletons, lockOwner, lockCount, res, calls,
                   stored, explicit, nops>>
    /\ UNCHANGED pvars

\* Faulty variant: no second lookup: the lock is taken and the providers are asked
RecheckSkipped(k) == FALSE

\* provide: whether the lookup under the lock finds the key
RecheckHit(k) == k \in DOMAIN singletons

\* provide: the second lookup in _singletons, under the lock.
ProvideRecheck(t) ==
    /\ At(t, "check2")
    /\ IF RecheckHit(Top(t).key)
       THEN frames' = SetTop(t, [Top(t) EXCEPT
                !.pc = "pop", !.out = Returned(singletons[Top(t).key])])
       ELSE frames' = SetTop(t, [Top(t) EXCEPT !.pc = "loop", !.prov = 1])
    /\ UNCHANGED <<providers, singletons, lockOwner, lockCount, stack,
                   dependencies, res, calls, stored,
                   explicit, nops>>
    /\ UNCHANGED pvars

\* Faulty variant: the loop gives up at the first provider that declines
ProviderLoopStopsAtDecline(t) ==
    /\ At(t, "loop")
    /\ IF Top(t).prov > Len(providers)
       THEN frames' = SetTop(t, [Top(t) EXCEPT !.pc = "pop",
                                               !.out = Returned(SENTINEL)])
       ELSE IF Top(t).key \in DOMAIN providers[Top(t).prov]
       THEN frames' = SetTop(t, [Top(t) EXCEPT !.pc = "factory", !.need = 1,
                                               !.asked = @ + 1])
       ELSE frames' = SetTop(t, [Top(t) EXCEPT !.pc = "pop",
                                               !.out = Returned(SENTINEL),
                                               !.asked = @ + 1])
    /\ UNCHANGED <<providers, singletons, lockOwner, lockCount, stack,
                   dependencies, res, calls, stored,
                   explicit, nops>>
    /\ UNCHANGED pvars

\* provide: for provider in self._providers, with FactoryProvider.provide's
\* lookup of the key; the loop running out leaves the with block and returns
\* SENTINEL.
ProviderLoop(t) ==
    /\ At(t, "loop")
    /\ IF Top(t).prov > Len(providers)
       THEN frames' = SetTop(t, [Top(t) EXCEPT !.pc = "pop",
                                               !.out = Returned(SENTINEL)])
       ELSE IF Top(t).key \in DOMAIN providers[Top(t).prov]
       THEN frames' = SetTop(t, [Top(t) EXCEPT !.pc = "factory", !.need = 1,
                                               !.asked = @ + 1])
       ELSE frames' = SetTop(t, [Top(t) EXCEPT !.prov = @ + 1,
                                               !.asked = @ + 1])
    /\ UNCHANGED <<providers, singletons, lockOwner, lockCount, stack,
                   dependencies, res, calls, stored,
                   explicit, nops>>
    /\ UNCHANGED pvars

TopFactory(t) == providers[Top(t).prov][Top(t).key]

\* The injected factory asks the container for its next argument.
FactoryInject(t) ==
    /\ At(t, "factory")
    /\ Top(t).need <= Len(TopFactory(t).needs)
    /\ frames' = [frames EXCEPT
                    ![t] = Append(@, NewFrame(TopFactory(t).needs[Top(t).need]))]
    /\ UNCHANGED <<providers, singletons, lockOwner, lockCount, stack,
                   dependencies, res, calls, stored,
                   explicit, nops>>
    /\ UNCHANGED pvars

\* Faulty variant: the item is never stored
StoreNever(k, item, singleton) == singletons

\* Faulty variant: the item is stored whatever the provider's singleton flag
StoreAlways(k, item, singleton) == DictSet(singletons, k, item)

\* provide: if instance.singleton: self._singletons[dependency_id] = item
StoreSingleton(k, item, singleton) ==
    IF singleton THEN DictSet(singletons, k, item) ELSE singletons

\* Faulty variant: the cache slot of a singleton is filled before its factory body
\* has returned, and stays filled when the body raises
FactoryCallStoresEarly(t) ==
    /\ At(t, "factory")
    /\ Top(t).need > Len(TopFactory(t).needs)
    /\ calls' = [calls EXCEPT ![Top(t).key] = @ + 1]
    /\ LET item == Instance(Top(t).key, Top(t).prov, calls'[Top(t).key])
       IN /\ frames' = SetTop(t, [Top(t) EXCEPT
                 !.pc = "pop",
                 !.out = IF TopFactory(t).raises
                         THEN Raised(FactoryError(Top(t).key))
                         ELSE Returned(item)])
          /\ singletons' = StoreSingleton(Top(t).key, item,
                                          TopFactory(t).singleton)
    /\ stored' = [stored EXCEPT
                    ![t] = IF singletons' /= singletons
                           THEN @ \cup {Top(t).key} ELSE @]
    /\ UNCHANGED <<providers, lockOwner, lockCount, stack, dependencies, res,
                   explicit, nops>>
    /\ UNCHANGED pvars

\* The factory body runs with all arguments injected; provide stores the
\* item when the provider marked it singleton.
FactoryCall(t) ==
    /\ At(t, "factory")
    /\ Top(t).need > Len(TopFactory(t).needs)
    /\ calls' = [calls EXCEPT ![Top(t).key] = @ + 1]
    /\ IF TopFactory(t).raises
       THEN /\ frames' = SetTop(t, [Top(t) EXCEPT
                   !.pc = "pop", !.out = Raised(FactoryError(Top(t).key))])
            /\ UNCHANGED singletons
       ELSE LET item == Instance(Top(t).key, Top(t).prov, calls'[Top(t).key])
            IN /\ frames' = SetTop(t, [Top(t) EXCEPT !.pc = "pop",
                                                     !.out = Returned(item)])
               /\ singletons' = StoreSingleton(Top(t).key, item,
                                               TopFactory(t).singleton)
    /\ stored' = [stored EXCEPT
                    ![t] = IF singletons' /= singletons
                           THEN @ \cup {Top(t).key} ELSE @]
    /\ UNCHANGED <<providers, lockOwner, lockCount, stack, dependencies, res,
                   explicit, nops>>
    /\ UNCHANGED pvars

\* Faulty variant: pop shortens the list and leaves the key in the set
popKeepsMember(t) ==
    /\ At(t, "pop")
    /\ stack' = SubSeq(stack, 1, Len(stack) - 1)
    /\ dependencies' = dependencies
    /\ frames' = SetTop(t, [Top(t) EXCEPT !.pc = "release"])
    /\ UNCHANGED <<providers, singletons, lockOwner, lockCount, res, calls,
                   stored, explicit, nops>>
    /\ UNCHANGED pvars

\* InstantiationStack.pop, in the finally of instantiating()
pop(t) ==
    /\ At(t, "pop")
    /\ stack' = SubSeq(stack, 1, Len(stack) - 1)
    /\ dependencies' = dependencies \ {stack[Len(stack)]}
    /\ frames' = SetTop(t, [Top(t) EXCEPT !.pc = "release"])
    /\ UNCHANGED <<providers, singletons, lockOwner, lockCount, res, calls,
                   stored, explicit, nops>>
    /\ UNCHANGED pvars

\* Faulty variant: no except clause for the cycle error: every exception is wrapped
ExceptClausesWrapAll(k, out) ==
    IF out.status = "raised"
    THEN Raised(DependencyInstantiationError(k, out.exc))
    ELSE out

\* provide's except clauses: a cycle error is re-raised as is, any other
\* exception is wrapped.
ExceptClauses(k, out) ==
    IF out.status = "raised" /\ ~IsCycleError(out)
    THEN Raised(DependencyInstantiationError(k, out.exc))
    ELSE out

\* The lock is released on leaving the with block, then provide returns or
\* raises to its caller.
ReleaseLock(t) ==
    /\ At(t, "release")
    /\ lockCount' = lockCount - 1
    /\ lockOwner' = IF lockCount = 1 THEN NoThread ELSE lockOwner
    /\ LET out == ExceptClauses(Top(t).key, Top(t).out)
       IN /\ frames' = [frames EXCEPT ![t] = FramesAfter(t, out)]
          /\ res' = ResAfter(t, out)
    /\ UNCHANGED <<providers, singletons, stack, dependencies, calls, stored,
                   explicit, nops>>
    /\ UNCHANGED pvars

\* Faulty variant: __setitem__ without taking the instantiation lock
SetItemUnlocked(t, k, v) ==
    /\ ~Busy(t)
    /\ nops < MaxOps
    /\ singletons' = DictSet(singletons, k, UserValue(v))
    /\ explicit' = DictSet(explicit, k, UserValue(v))
    /\ nops' = nops + 1
    /\ UNCHANGED <<providers, lockOwner, lockCount, stack, dependencies,
                   frames, res, calls, stored>>
    /\ UNCHANGED pvars

\* DependencyContainer.__setitem__
SetItem(t, k, v) ==
    /\ ~Busy(t)
    /\ nops < MaxOps
    /\ lockOwner = NoThread
    /\ singletons' = DictSet(singletons, k, UserValue(v))
    /\ explicit' = DictSet(explicit, k, UserValue(v))
    /\ nops' = nops + 1
    /\ UNCHANGED <<providers, lockOwner, lockCount, stack, dependencies,
                   frames, res, calls, stored>>
    /\ UNCHANGED pvars

\* DependencyContainer.__delitem__ (a missing key raises KeyError and
\* changes nothing)
DelItem(t, k) ==
    /\ ~Busy(t)
    /\ nops < MaxOps
    /\ lockOwner = NoThread
    /\ singletons' = IF k \in DOMAIN singletons THEN DictDel(singletons, k)
                     ELSE singletons
    /\ explicit' = IF k \in DOMAIN singletons
                   THEN DictSet(explicit, k, Deleted) ELSE explicit
    /\ nops' = nops + 1
    /\ UNCHANGED <<providers, lockOwner, lockCount, stack, dependencies,
                   frames, res, calls, stored>>
    /\ UNCHANGED pvars

\* The mappings handed to update_singletons.
UpdateMappings ==
    {[k \in D |-> UserValue(v)] : D \in {{"S", "N"}}, v \in UserValues}

\* DependencyContainer.update_singletons
UpdateSingletons(t, m) ==
    /\ ~Busy(t)
    /\ nops < MaxOps
    /\ lockOwner = NoThread
    /\ singletons' = DictUpdate(singletons, m)
    /\ explicit' = DictUpdate(explicit, m)
    /\ nops' = nops + 1
    /\ UNCHANGED <<providers, lockOwner, lockCount, stack, dependencies,
                   frames, res, calls, stored>>
    /\ UNCHANGED pvars

Next ==
    \/ RegisterProvider
    \/ \E t \in Threads, k \in Keys : Call(t, k)
    \/ \E t \in Threads : ProvideFastPath(t)
    \/ \E t \in Threads : AcquireLock(t)
    \/ \E t \in Threads : push(t)
    \/ \E t \in Threads : ProvideRecheck(t)
    \/ \E t \in Threads : ProviderLoop(t)
    \/ \E t \in Threads : FactoryInject(t)
    \/ \E t \in Threads : FactoryCall(t)
    \/ \E t \in Threads : pop(t)
    \/ \E t \in Threads : ReleaseLock(t)
    \/ \E t \in Threads, k \in SetKeys, v \in UserValues : SetItem(t, k, v)
    \/ \E t \in Threads, k \in SetKeys : DelItem(t, k)
    \/ \E t \in Threads, m \in UpdateMappings : UpdateSingletons(t, m)

Spec == Init /\ [][Next]_vars

\* One statement of thread t inside container[k].
ThreadStep(t) ==
    \/ ProvideFastPath(t)
    \/ AcquireLock(t)
    \/ push(t)
    \/ ProvideRecheck(t)
    \/ ProviderLoop(t)
    \/ FactoryInject(t)
    \/ FactoryCall(t)
    \/ pop(t)
    \/ ReleaseLock(t)

\* A thread that can run its next statement eventually runs it (the
\* interpreter keeps scheduling every runnable thread).
FairSpec == Spec /\ \A t \in Threads : WF_vars(ThreadStep(t))

TypeOK ==
    /\ lockCount >= 0
    /\ (lockOwner = NoThread) <=> (lockCount = 0)

\* ---------------------------------- FactoryProvider and parameterized keys
\* Base keys registered with the FactoryProvider and asked of it.
BaseKeys == {"K", "J"}
\* Python's None, as a key handed to register.
NoneKey == "None"
\* The callables handed to register, and an object that is not callable.
Funcs == {"f", "g"}
NotCallable == "1"
\* Extra positional arguments and named arguments carried by Build keys.
ArgValues == {"1", "2"}

\* A dependency id as the caller writes it: the bare key w, or the call
\* Build(w, *args, **kwargs); kwargs is the sequence of (name, value) pairs
\* in the order written.
Bare(w) == [build |-> FALSE, wrapped |-> w, args |-> <<>>, kwargs |-> <<>>]
BuildCall(w, args, kwargs) ==
    [build |-> TRUE, wrapped |-> w, args |-> args, kwargs |-> kwargs]

\* The ids asked for.
Requests ==
    {Bare("K"), Bare("J"),
     BuildCall("K", <<>>, <<>>),
     BuildCall("K", <<"1">>, <<>>),
     BuildCall("K", <<"2">>, <<>>),
     BuildCall("K", <<"2", "1">>, <<>>),
     BuildCall("K", <<"1">>, <<<<"x", "1">>>>),
     BuildCall("J", <<"1">>, <<>>)}

PyNone == [tag |-> "None", id |-> "", prov |-> 0, n |-> 0]
TypeError(msg) == <<Exc("TypeError", msg, <<>>)>>
ValueError(msg) == <<Exc("ValueError", msg, <<>>)>>
DuplicateDependencyError(dep) == <<Exc("DuplicateDependencyError", dep, <<>>)>>

\* Build.__init__: the object, or the TypeError raised for a call that
\* carries neither extra positional nor named arguments.
BuildInit(call) ==
    IF call.args = <<>> /\ call.kwargs = <<>>
    THEN Raised(TypeError("Without additional arguments, Build must not be used."))
    ELSE Returned(call)

\* Evaluating the id expression before the call that receives it.
Evaluate(req) == IF req.build THEN BuildInit(req) ELSE Returned(req)

\* Build.__hash__: the hash of the tuple (wrapped, args, kwargs items); the
\* tuple stands for its hash.
BuildHash(b) == <<b.wrapped, b.args, b.kwargs>>

\* Build.__eq__ (the last conjunct compares self.kwargs with itself)
BuildEq(b, other) ==
    /\ other.build
    /\ b.wrapped = other.wrapped
    /\ b.args = other.args
    /\ b.kwargs = b.kwargs

\* Faulty variant: two ids name the same dict slot as soon as their base keys agree
SameKeyByWrapped(a, b) == a.wrapped = b.wrapped

\* Whether a dict takes a and b for the same key: equal hashes and a == b
\* (a bare key equals no Build object).
SameKey(a, b) ==
    /\ (IF a.build THEN BuildHash(a) ELSE <<a.wrapped>>)
          = (IF b.build THEN BuildHash(b) ELSE <<b.wrapped>>)
    /\ IF a.build THEN BuildEq(a, b)
       ELSE IF b.build THEN BuildEq(b, a)
       ELSE a.wrapped = b.wrapped

\* Factory.__init__
Factory(func, singleton, takes_dependency) ==
    [func |-> func, singleton |-> singleton,
     takes_dependency |-> takes_dependency]

\* callable(factory)
IsCallable(factory) == factory \in Funcs

\* FactoryProvider.register: what the call ends with.
RegisterOutcome(dependency, factory) ==
    IF ~IsCallable(factory)
    THEN Raised(ValueError("The factory must be callable."))
    ELSE IF dependency = NoneKey
    THEN Raised(ValueError("dependency parameter must be specified."))
    ELSE IF dependency \in DOMAIN factories
    THEN Raised(DuplicateDependencyError(dependency))
    ELSE Returned(PyNone)

\* Faulty variant: the factory is stored before the checks are made
RegistryAfterUnchecked(dependency, factory_, out) ==
    DictSet(factories, dependency, factory_)

\* FactoryProvider.register: _factories when the call has ended.
RegistryAfter(dependency, factory_, out) ==
    IF out.status = "returned"
    THEN DictSet(factories, dependency, factory_)
    ELSE factories

\* FactoryProvider.register
FactoryRegister(dependency, factory, singleton, takes_dependency) ==
    /\ nops < MaxOps
    /\ LET out == RegisterOutcome(dependency, factory)
       IN /\ factories' = RegistryAfter(
                 dependency, Factory(factory, singleton, takes_dependency), out)
          /\ fres' = [op |-> "register", key |-> Bare(dependency),
                       factory |-> factory, out |-> out]
    /\ nops' = nops + 1
    /\ UNCHANGED <<idle, singletons, invoked, getters,
                   tagged, collection, iters>>

\* Faulty variant: the base key is always passed first
CallArgsAlwaysKey(dependency, factory_) ==
    <<dependency.wrapped>> \o dependency.args

\* FactoryProvider.provide: the positional arguments of the factory call
\* (a bare key carries none of its own).
CallArgs(dependency, factory_) ==
    (IF factory_.takes_dependency THEN <<dependency.wrapped>> ELSE <<>>)
        \o dependency.args

\* The call factory(*args, **kwargs) and the object it returns: the n-th
\* invocation builds a new object that remembers what it was called with.
Invocation(func, args, kwargs) ==
    [func |-> func, args |-> args, kwargs |-> kwargs]
Built(func, args, kwargs, n) ==
    [tag |-> "built", func |-> func, args |-> args, kwargs |-> kwargs,
     n |-> n]
DependencyInstance(item, singleton) ==
    [tag |-> "DependencyInstance", item |-> item, singleton |-> singleton]

\* FactoryProvider.provide: whether the base key is in _factories.
Provides(dependency) == dependency.wrapped \in DOMAIN factories

\* FactoryProvider.provide: the factory call it makes for a registered key.
ProvideCall(dependency) ==
    LET factory_ == factories[dependency.wrapped]
    IN Invocation(factory_.func, CallArgs(dependency, factory_),
                  dependency.kwargs)

\* FactoryProvider.provide: None, or the DependencyInstance.
ProvideResult(dependency) ==
    IF ~Provides(dependency) THEN PyNone
    ELSE LET c == ProvideCall(dependency)
         IN DependencyInstance(
                Built(c.func, c.args, c.kwargs, Len(invoked) + 1),
                factories[dependency.wrapped].singleton)

InvokedAfter(dependency) ==
    IF Provides(dependency) THEN Append(invoked, ProvideCall(dependency))
    ELSE invoked

\* provider.provide(dependency) called directly.
FactoryProvide(req) ==
    /\ nops < MaxOps
    /\ LET key == Evaluate(req)
       IN IF key.status = "raised"
          THEN /\ fres' = [op |-> "provide", key |-> req, factory |-> "", out |-> key]
               /\ UNCHANGED invoked
          ELSE /\ fres' = [op |-> "provide", key |-> req, factory |-> "",
                           out |-> Returned(ProvideResult(key.value))]
               /\ invoked' = InvokedAfter(key.value)
    /\ nops' = nops + 1
    /\ UNCHANGED <<idle, singletons, factories, getters,
                   tagged, collection, iters>>

\* self._singletons[dependency_id]
Cached(key) == \E c \in DOMAIN singletons : SameKey(c, key)
CachedItem(key) ==
    singletons[CHOOSE c \in DOMAIN singletons : SameKey(c, key)]

\* container[dependency_id] on one thread, the container having this
\* FactoryProvider as its only provider: the cache lookup, the provider, the
\* store of a singleton, and __getitem__'s DependencyNotFoundError.
ContainerGet(req) ==
    /\ nops < MaxOps
    /\ LET key == Evaluate(req)
       IN IF key.status = "raised"
          THEN /\ fres' = [op |-> "get", key |-> req, factory |-> "", out |-> key]
               /\ UNCHANGED <<singletons, invoked>>
          ELSE IF Cached(key.value)
          THEN /\ fres' = [op |-> "get", key |-> req, factory |-> "",
                           out |-> Returned(CachedItem(key.value))]
               /\ UNCHANGED <<singletons, invoked>>
          ELSE LET instance == ProvideResult(key.value)
               IN /\ invoked' = InvokedAfter(key.value)
                  /\ IF instance = PyNone
                     THEN /\ fres' = [op |-> "get", key |-> req, factory |-> "",
                                      out |-> Raised(<<Exc(
                                          "DependencyNotFoundError", "", <<>>)>>)]
                          /\ UNCHANGED singletons
                     ELSE /\ fres' = [op |-> "get", key |-> req, factory |-> "",
                                      out |-> Returned(instance.item)]
                          /\ singletons' =
                                IF instance.singleton
                                THEN DictSet(singletons, key.value, instance.item)
                                ELSE singletons
    /\ nops' = nops + 1
    /\ UNCHANGED <<idle, factories, getters,
                   tagged, collection, iters>>

FactoryNext ==
    \/ \E dependency \in BaseKeys \cup {NoneKey},
          factory \in Funcs \cup {NotCallable},
          singleton \in BOOLEAN, takes_dependency \in BOOLEAN :
            FactoryRegister(dependency, factory, singleton, takes_dependency)
    \/ \E req \in Requests : FactoryProvide(req)
    \/ \E req \in Requests : ContainerGet(req)

\* The application registers factories and asks for keys, on one thread.
FactorySpec == Init /\ [][FactoryNext]_vars

\* -------------------------------------------------------- ResourceProvider
\* A string is the sequence of its characters; a name that is only ever
\* passed along whole ("test") counts as one character.  LF is the newline.
LF == "LF"
AsciiWordChars == {"a", "_", "1", "test", "other"}
UnicodeWordChars == AsciiWordChars \cup {"e-acute"}
Str(chars) == [str |-> TRUE, chars |-> chars]
\* An object that is not a string.
NotStr == [str |-> FALSE, chars |-> <<>>]

\* The namespaces handed to register.
Namespaces ==
    {Str(<<"a">>), Str(<<>>), Str(<<"a", ":">>), Str(<<"a", LF>>),
     Str(<<"e-acute">>), NotStr}

\* The dependency ids handed to provide.
ResourceIds ==
    {Str(<<"a", ":", "test">>), Str(<<"a", ":", "other">>), Str(<<"test">>),
     NotStr}

Priorities == {1, 2}

\* The getter functions: "high" knows the name test only, "full" knows the
\* id a:test only, "low" knows every name, "broken" raises an error that is
\* not a LookupError.
GetterFuncs == {"high", "full", "low", "broken"}
GetterCall(func, arg) ==
    IF func = "broken" THEN Raised(ValueError("broken"))
    ELSE IF \/ func = "low"
            \/ func = "high" /\ arg = <<"test">>
            \/ func = "full" /\ arg = <<"a", ":", "test">>
    THEN Returned([tag |-> "resource", func |-> func, arg |-> arg])
    ELSE Raised(<<Exc("LookupError", "", <<>>)>>)

\* re.match(r'^\w+$', s): one or more word characters (\w covers the Unicode
\* word characters in a str pattern), up to the end of the string or up to a
\* newline that ends it.
ReMatchWord(s) ==
    \E n \in 1..Len(s) :
        /\ \A i \in 1..n : s[i] \in UnicodeWordChars
        /\ \/ n = Len(s)
           \/ n = Len(s) - 1 /\ s[Len(s)] = LF

\* ResourceGetter.__init__ (singleton is left at register's default)
ResourceGetter(getter, namespace, priority, omit_namespace) ==
    [getter |-> getter, namespace |-> namespace, priority |-> priority,
     omit_namespace |-> omit_namespace, singleton |-> TRUE]

\* ResourceGetter.get: what the getter function is called with
GetterArg(g, resource_name) ==
    IF g.omit_namespace THEN resource_name
    ELSE g.namespace \o <<":">> \o resource_name

\* dict.get(namespace) or []
GettersOf(namespace) ==
    IF namespace \in DOMAIN getters THEN getters[namespace] ELSE <<>>

RECURSIVE Bisect(_, _, _, _)
\* bisect.bisect(a, x): the binary search of bisect_right
Bisect(a, x, lo, hi) ==
    IF lo >= hi THEN lo
    ELSE LET mid == (lo + hi) \div 2
         IN IF x < a[mid + 1] THEN Bisect(a, x, lo, mid)
            ELSE Bisect(a, x, mid + 1, hi)

\* Faulty variant: the new getter goes to the end of the list
InsertIndexLast(gs, priority) == Len(gs)

\* register: idx = bisect.bisect([-g.priority for g in getters], -priority)
InsertIndex(gs, priority) ==
    Bisect([i \in 1..Len(gs) |-> 0 - gs[i].priority], 0 - priority, 0, Len(gs))

\* list.insert(idx, x)
ListInsert(l, idx, x) ==
    SubSeq(l, 1, idx) \o <<x>> \o SubSeq(l, idx + 1, Len(l))

\* Faulty variant: register does not look for a getter of the same priority
ResourceRegisterOutcomeNoConflict(namespace, priority) ==
    IF ~namespace.str
    THEN Raised(ValueError("namespace must be a string"))
    ELSE IF ~ReMatchWord(namespace.chars)
    THEN Raised(ValueError("namespace can only contain characters in [a-zA-Z0-9_]"))
    ELSE Returned(PyNone)

\* ResourceProvider.register: what the call ends with.
ResourceRegisterOutcome(namespace, priority) ==
    IF ~namespace.str
    THEN Raised(ValueError("namespace must be a string"))
    ELSE IF ~ReMatchWord(namespace.chars)
    THEN Raised(ValueError("namespace can only contain characters in [a-zA-Z0-9_]"))
    ELSE IF \E i \in 1..Len(GettersOf(namespace.chars)) :
                GettersOf(namespace.chars)[i].priority = priority
    THEN Raised(<<Exc("GetterPriorityConflict", "", <<>>)>>)
    ELSE Returned(PyNone)

\* ResourceProvider.register
ResourceRegister(resource_getter, namespace, priority, omit_namespace) ==
    /\ nops < MaxOps
    /\ LET out == ResourceRegisterOutcome(namespace, priority)
           gs == GettersOf(namespace.chars)
       IN /\ fres' = [op |-> "resource.register", key |-> namespace,
                      factory |-> resource_getter, out |-> out]
          /\ getters' =
                IF out.status = "raised" THEN getters
                ELSE DictSet(getters, namespace.chars,
                             ListInsert(gs, InsertIndex(gs, priority),
                                        ResourceGetter(resource_getter,
                                                       namespace.chars, priority,
                                                       omit_namespace)))
    /\ nops' = nops + 1
    /\ UNCHANGED <<idle, singletons, factories, invoked,
                   tagged, collection, iters>>

RECURSIVE GetterLoop(_, _, _)
\* provide: for getter in getters, from the i-th on.  The calls made, and
\* the outcome: the Instance of the first getter that raises no LookupError,
\* the exception of a getter that raises anything else, None at the end.
GetterLoop(gs, resource_name, i) ==
    IF i > Len(gs) THEN [calls |-> <<>>, out |-> Returned(PyNone)]
    ELSE LET arg == GetterArg(gs[i], resource_name)
             got == GetterCall(gs[i].getter, arg)
             call == Invocation(gs[i].getter, arg, <<>>)
         IN IF got.status = "returned"
            THEN [calls |-> <<call>>,
                  out |-> Returned(DependencyInstance(got.value,
                                                      gs[i].singleton))]
            ELSE IF got.exc[1].type = "LookupError"
            THEN LET rest == GetterLoop(gs, resource_name, i + 1)
                 IN [calls |-> <<call>> \o rest.calls, out |-> rest.out]
            ELSE [calls |-> <<call>>, out |-> got]

\* ':' in dependency.id, and dependency.id.split(':', 1)
HasColon(s) == \E i \in 1..Len(s) : s[i] = ":"
ColonAt(s) == CHOOSE i \in 1..Len(s) :
                 s[i] = ":" /\ \A j \in 1..(i - 1) : s[j] /= ":"
SplitNamespace(s) == SubSeq(s, 1, ColonAt(s) - 1)
SplitName(s) == SubSeq(s, ColonAt(s) + 1, Len(s))

\* ResourceProvider.provide
ResourceProvide(id) ==
    /\ nops < MaxOps
    /\ LET r == IF id.str /\ HasColon(id.chars)
                   /\ SplitNamespace(id.chars) \in DOMAIN getters
                THEN GetterLoop(getters[SplitNamespace(id.chars)],
                                SplitName(id.chars), 1)
                ELSE [calls |-> <<>>, out |-> Returned(PyNone)]
       IN /\ fres' = [op |-> "resource.provide", key |-> id, factory |-> "",
                      out |-> r.out]
          /\ invoked' = invoked \o r.calls
    /\ nops' = nops + 1
    /\ UNCHANGED <<idle, singletons, factories, getters,
                   tagged, collection, iters>>

ResourceNext ==
    \/ \E resource_getter \in GetterFuncs, namespace \in Namespaces,
          priority \in Priorities, omit_namespace \in BOOLEAN :
            ResourceRegister(resource_getter, namespace, priority,
                             omit_namespace)
    \/ \E id \in ResourceIds : ResourceProvide(id)

\* The application registers getters and asks for resources, on one thread.
ResourceSpec == Init /\ [][ResourceNext]_vars

\* ------------------------------------------- TagProvider, TaggedDependencies
\* The dependency ids that get tagged, and the tag names.
TaggedKeys == {"X", "Y"}
TagNames == {"t", "u"}

\* Tag.__init__
Tag(name) == [name |-> name]

\* self._tagged_dependencies.get(name, {}).items(): the (dependency, tag)
\* pairs of a tag name in the order they were put into the dict.
TaggedItems(name) == IF name \in DOMAIN tagged THEN tagged[name] ELSE <<>>

\* TagProvider.register with one tag, during the single-threaded setup: the
\* dependency is added to the tag's dict, or DuplicateTagError is raised.
TagRegister(dependency_id, name) ==
    /\ ~collection.made
    /\ LET items == TaggedItems(name)
           dup == \E i \in 1..Len(items) : items[i].dependency = dependency_id
       IN /\ tagged' =
                IF dup THEN tagged
                ELSE DictSet(tagged, name,
                             Append(items, [dependency |-> dependency_id,
                                            tag |-> Tag(name)]))
          /\ fres' = [op |-> "tag.register", key |-> dependency_id,
                      factory |-> name,
                      out |-> IF dup
                              THEN Raised(<<Exc("DuplicateTagError", name, <<>>)>>)
                              ELSE Returned(PyNone)]
    /\ UNCHANGED <<idle, singletons, nops, factories, invoked, getters,
                   collection, iters>>

\* TaggedDependencies.__init__: one getter (lambda: container[d]) and one
\* tag per pair, no instance yet, and a lock nobody holds (lock names the
\* generator whose thread holds it).  id tells the objects apart: they are
\* numbered as they are made.
TaggedDependencies(name, pairs) ==
    [made |-> TRUE, name |-> name, instances |-> <<>>,
     getters |-> [i \in 1..Len(pairs) |-> pairs[i].dependency],
     tags |-> [i \in 1..Len(pairs) |-> pairs[i].tag],
     lock |-> "", id |-> collection.id + 1]

\* Faulty variant: the collection is handed out as a singleton
TagProvideResultSingleton(name) ==
    DependencyInstance(TaggedDependencies(name, TaggedItems(name)), TRUE)

\* TagProvider.provide(Tagged(name)): Instance(TaggedDependencies(...),
\* singleton=False)
TagProvideResult(name) ==
    DependencyInstance(TaggedDependencies(name, TaggedItems(name)), FALSE)

\* TagProvider.provide(Tagged(name)): the collection the caller keeps.
TagProvide(name) ==
    /\ ~collection.made
    /\ collection' = TagProvideResult(name).item
    /\ UNCHANGED iters
    /\ fres' = [op |-> "tag.provide", key |-> name, factory |-> "",
                out |-> Returned(TagProvideResult(name))]
    /\ UNCHANGED <<idle, singletons, nops, factories, invoked, getters,
                   tagged>>

\* A generator of dependencies() that has not run yet: i = -1, in the
\* enumerate loop.  yielded is what it has handed out so far.
NewGenerator ==
    [phase |-> "enum", i |-> 0 - 1, yielded |-> <<>>, getter |-> ""]

\* iter(collection) / collection.dependencies(), by a caller whose earlier
\* generator, if any, is not running
NewIter(g) ==
    /\ collection.made
    /\ iters[g] /= NewGenerator
    /\ iters[g].phase \in {"none", "enum", "while", "done"}
    /\ iters' = [iters EXCEPT ![g] = NewGenerator]
    /\ fres' = [op |-> "iter", key |-> g, factory |-> "", out |-> Pending]
    /\ UNCHANGED <<idle, singletons, nops, factories, invoked, getters,
                   tagged, collection>>

\* Faulty variant: the generator never finds the instance of its position in the list
HasInstanceNever(c, j) == FALSE

\* dependencies(): whether self._instances[j] exists (j counted from 0)
HasInstance(c, j) == j < Len(c.instances)

\* The getter of a tagged dependency: container[d], recorded as a call; the
\* n-th resolution hands out the n-th object.
Resolve(d) == Invocation("container", <<d>>, <<>>)
Resolved(d, n) == Built("container", <<d>>, <<>>, n)

\* next(generator): the generator runs to its next yield.  Position j is
\* taken from the list when it is there; otherwise, in the while loop, the
\* next getter is popped, called, and its instance appended; past the last
\* tag the generator ends.
IterNext(g) ==
    /\ nops < MaxOps
    /\ iters[g].phase \in {"enum", "while"}
    /\ LET j == iters[g].i + 1
           c == collection
       IN IF HasInstance(c, j)
          THEN /\ iters' = [iters EXCEPT ![g].i = j,
                              ![g].yielded = Append(@, c.instances[j + 1])]
               /\ fres' = [op |-> "next", key |-> g, factory |-> "",
                           out |-> Returned(c.instances[j + 1])]
               /\ UNCHANGED <<collection, invoked>>
          ELSE IF j >= Len(c.tags)
          THEN /\ iters' = [iters EXCEPT ![g].phase = "done"]
               /\ fres' = [op |-> "next", key |-> g, factory |-> "",
                           out |-> Raised(<<Exc("StopIteration", "", <<>>)>>)]
               /\ UNCHANGED <<collection, invoked>>
          ELSE IF c.getters = <<>>
          THEN /\ iters' = [iters EXCEPT ![g].phase = "done"]
               /\ fres' = [op |-> "next", key |-> g, factory |-> "",
                           out |-> Raised(<<Exc("IndexError", "", <<>>)>>)]
               /\ UNCHANGED <<collection, invoked>>
          ELSE LET item == Resolved(Head(c.getters), Len(invoked) + 1)
                   grown == Append(c.instances, item)
               IN /\ invoked' = Append(invoked, Resolve(Head(c.getters)))
                  /\ collection' = [c EXCEPT !.getters = Tail(@),
                                             !.instances = grown]
                  /\ iters' = [iters EXCEPT ![g].i = j, ![g].phase = "while",
                                  ![g].yielded = Append(@, grown[j + 1])]
                  /\ fres' = [op |-> "next", key |-> g, factory |-> "",
                              out |-> Returned(grown[j + 1])]
    /\ nops' = nops + 1
    /\ UNCHANGED <<idle, singletons, factories, getters, tagged>>

TagNext ==
    \/ \E dependency_id \in TaggedKeys, name \in TagNames :
          TagRegister(dependency_id, name)
    \/ \E name \in TagNames : TagProvide(name)
    \/ \E g \in Iters : NewIter(g)
    \/ \E g \in Iters : IterNext(g)

\* Dependencies are tagged, then one collection is asked for and iterated
\* by one thread, through several generators.
TagSpec == Init /\ [][TagNext]_vars

\* ----------------------- TaggedDependencies.dependencies(), thread by thread
\* Each generator belongs to one thread; the statements of dependencies()
\* run one at a time, interleaved with those of the other thread.
\*   phase "enum"    in the for loop over self._instances
\*         "while"   at the head of the while loop
\*         "except"  IndexError caught, about to take self._lock
\*         "locked"  inside the with block, before popleft()
\*         "call"    a getter was popped, before append(getter())
\*         "unlock"  leaving the with block
\*         "yield"   the lock is released, before the second yield
\*         "done"    the generator has ended

\* What leaves a step of a generator alone.
TagIdle == <<idle, singletons, nops, factories, getters, tagged>>

\* next(generator) up to the first yield, or on from the last one: the for
\* loop yields the instance of its position or ends; the while loop ends
\* past the last tag, yields the instance of its position, or catches the
\* IndexError.
DependenciesResume(g) ==
    /\ iters[g].phase \in {"enum", "while"}
    /\ LET j == iters[g].i + 1
           c == collection
       IN IF HasInstance(c, j)
          THEN /\ iters' = [iters EXCEPT ![g].i = j,
                              ![g].yielded = Append(@, c.instances[j + 1])]
               /\ fres' = [op |-> "next", key |-> g, factory |-> "",
                           out |-> Returned(c.instances[j + 1])]
          ELSE IF iters[g].phase = "enum"
          THEN /\ iters' = [iters EXCEPT ![g].phase = "while"]
               /\ UNCHANGED fres
          ELSE IF j >= Len(c.tags)
          THEN /\ iters' = [iters EXCEPT ![g].phase = "done"]
               /\ fres' = [op |-> "next", key |-> g, factory |-> "",
                           out |-> Raised(<<Exc("StopIteration", "", <<>>)>>)]
          ELSE /\ iters' = [iters EXCEPT ![g].phase = "except"]
               /\ UNCHANGED fres
    /\ UNCHANGED <<TagIdle, invoked, collection>>

\* Faulty variant: the with block is entered without waiting for the lock
DependenciesLockNoWait(g) ==
    /\ iters[g].phase = "except"
    /\ collection' = [collection EXCEPT !.lock = g]
    /\ iters' = [iters EXCEPT ![g].phase = "locked"]
    /\ UNCHANGED <<TagIdle, invoked, fres>>

\* with self._lock: the thread waits until nobody holds the lock
DependenciesLock(g) ==
    /\ iters[g].phase = "except"
    /\ collection.lock = ""
    /\ collection' = [collection EXCEPT !.lock = g]
    /\ iters' = [iters EXCEPT ![g].phase = "locked"]
    /\ UNCHANGED <<TagIdle, invoked, fres>>

\* getter = self._getters.popleft(), or pass when the deque is empty
DependenciesPopLeft(g) ==
    /\ iters[g].phase = "locked"
    /\ IF collection.getters = <<>>
       THEN /\ iters' = [iters EXCEPT ![g].phase = "unlock"]
            /\ UNCHANGED collection
       ELSE /\ iters' = [iters EXCEPT ![g].phase = "call",
                           ![g].getter = Head(collection.getters)]
            /\ collection' = [collection EXCEPT !.getters = Tail(@)]
    /\ UNCHANGED <<TagIdle, invoked, fres>>

\* self._instances.append(getter())
DependenciesAppend(g) ==
    /\ iters[g].phase = "call"
    /\ invoked' = Append(invoked, Resolve(iters[g].getter))
    /\ collection' =
          [collection EXCEPT !.instances =
              Append(@, Resolved(iters[g].getter, Len(invoked) + 1))]
    /\ iters' = [iters EXCEPT ![g].phase = "unlock"]
    /\ UNCHANGED <<TagIdle, fres>>

\* the end of the with block
DependenciesUnlock(g) ==
    /\ iters[g].phase = "unlock"
    /\ collection' = [collection EXCEPT !.lock = ""]
    /\ iters' = [iters EXCEPT ![g].phase = "yield"]
    /\ UNCHANGED <<TagIdle, invoked, fres>>

\* yield self._instances[i] after the with block; an IndexError here leaves
\* the generator.
DependenciesYield(g) ==
    /\ iters[g].phase = "yield"
    /\ LET j == iters[g].i + 1
           c == collection
       IN IF HasInstance(c, j)
          THEN /\ iters' = [iters EXCEPT ![g].i = j, ![g].phase = "while",
                              ![g].getter = "",
                              ![g].yielded = Append(@, c.instances[j + 1])]
               /\ fres' = [op |-> "next", key |-> g, factory |-> "",
                           out |-> Returned(c.instances[j + 1])]
          ELSE /\ iters' = [iters EXCEPT ![g].phase = "done",
                              ![g].getter = ""]
               /\ fres' = [op |-> "next", key |-> g, factory |-> "",
                           out |-> Raised(<<Exc("IndexError", "", <<>>)>>)]
    /\ UNCHANGED <<TagIdle, invoked, collection>>

TagThreadNext ==
    \/ \E dependency_id \in TaggedKeys, name \in TagNames :
          TagRegister(dependency_id, name)
    \/ \E name \in TagNames : TagProvide(name)
    \/ \E g \in Iters : NewIter(g)
    \/ \E g \in Iters : DependenciesResume(g)
    \/ \E g \in Iters : DependenciesLock(g)
    \/ \E g \in Iters : DependenciesPopLeft(g)
    \/ \E g \in Iters : DependenciesAppend(g)
    \/ \E g \in Iters : DependenciesUnlock(g)
    \/ \E g \in Iters : DependenciesYield(g)

\* Dependencies are tagged, then one collection is asked for and iterated
\* by two threads at once, each through its own generators.
TagThreadSpec == Init /\ [][TagThreadNext]_vars

\* ------------------------------ the container in front of the tag provider
\* Tagged(name): a new object at every request; __hash__ and __eq__ are
\* object's, so the n-th Tagged object equals itself only.
Tagged(name, n) ==
    [build |-> FALSE, wrapped |-> "Tagged", args |-> <<name, n>>,
     kwargs |-> <<>>]

\* container[Tagged(name)] on one thread, the providers being a
\* FactoryProvider and the TagProvider: the cache lookup misses unless this
\* very object is a key, the FactoryProvider has no factory for it, the
\* TagProvider answers, and the container stores the answer only if it is
\* marked singleton.  The caller keeps the collection and drops the one it
\* had, with its generators.
ContainerGetTagged(name) ==
    /\ nops < MaxOps
    /\ LET key == Tagged(name, collection.id + 1)
           instance == TagProvideResult(name)
       IN IF key \in DOMAIN singletons
          THEN /\ fres' = [op |-> "get", key |-> key, factory |-> "",
                           out |-> Returned(singletons[key])]
               /\ UNCHANGED <<singletons, collection, iters>>
          ELSE /\ fres' = [op |-> "get", key |-> key, factory |-> "",
                           out |-> Returned(instance.item)]
               /\ singletons' = IF instance.singleton
                                THEN DictSet(singletons, key, instance.item)
                                ELSE singletons
               /\ collection' = instance.item
               /\ iters' = [g \in Iters |-> NoGenerator]
    /\ nops' = nops + 1
    /\ UNCHANGED <<idle, factories, invoked, getters, tagged>>

\* The getter lambda d=tagged_dependency: self._container[d], on one thread:
\* what it returns or raises.
GetterOutcome(d) ==
    IF Cached(Bare(d)) THEN Returned(CachedItem(Bare(d)))
    ELSE IF ProvideResult(Bare(d)) = PyNone
    THEN Raised(<<Exc("DependencyNotFoundError", "", <<>>)>>)
    ELSE Returned(ProvideResult(Bare(d)).item)

\* next(generator), the getters going through the container: as IterNext,
\* but the popped getter returns the cached instance of its key or has the
\* FactoryProvider build one (stored when the factory is a singleton), and
\* its DependencyNotFoundError leaves the generator with the getter gone.
TaggedNext(g) ==
    /\ iters[g].phase \in {"enum", "while"}
    /\ LET j == iters[g].i + 1
           c == collection
       IN IF HasInstance(c, j)
          THEN /\ iters' = [iters EXCEPT ![g].i = j,
                              ![g].yielded = Append(@, c.instances[j + 1])]
               /\ fres' = [op |-> "next", key |-> g, factory |-> "",
                           out |-> Returned(c.instances[j + 1])]
               /\ UNCHANGED <<collection, invoked, singletons>>
          ELSE IF j >= Len(c.tags)
          THEN /\ iters' = [iters EXCEPT ![g].phase = "done"]
               /\ fres' = [op |-> "next", key |-> g, factory |-> "",
                           out |-> Raised(<<Exc("StopIteration", "", <<>>)>>)]
               /\ UNCHANGED <<collection, invoked, singletons>>
          ELSE IF c.getters = <<>>
          THEN /\ iters' = [iters EXCEPT ![g].phase = "done"]
               /\ fres' = [op |-> "next", key |-> g, factory |-> "",
                           out |-> Raised(<<Exc("IndexError", "", <<>>)>>)]
               /\ UNCHANGED <<collection, invoked, singletons>>
          ELSE LET d == Head(c.getters)
                   out == GetterOutcome(d)
               IN IF out.status = "raised"
                  THEN /\ collection' = [c EXCEPT !.getters = Tail(@)]
                       /\ iters' = [iters EXCEPT ![g].phase = "done"]
                       /\ fres' = [op |-> "next", key |-> g, factory |-> "",
                                   out |-> out]
                       /\ UNCHANGED <<invoked, singletons>>
                  ELSE LET grown == Append(c.instances, out.value)
                       IN /\ invoked' = IF Cached(Bare(d)) THEN invoked
                                        ELSE InvokedAfter(Bare(d))
                          /\ singletons' =
                                IF ~Cached(Bare(d))
                                   /\ ProvideResult(Bare(d)).singleton
                                THEN DictSet(singletons, Bare(d), out.value)
                                ELSE singletons
                          /\ collection' = [c EXCEPT !.getters = Tail(@),
                                                     !.instances = grown]
                          /\ iters' = [iters EXCEPT ![g].i = j,
                                          ![g].phase = "while",
                                          ![g].yielded = Append(@, grown[j + 1])]
                          /\ fres' = [op |-> "next", key |-> g, factory |-> "",
                                      out |-> Returned(grown[j + 1])]
    /\ UNCHANGED <<idle, nops, factories, getters, tagged>>

TagContainerNext ==
    \/ \E dependency \in TaggedKeys, singleton \in BOOLEAN :
          FactoryRegister(dependency, "f", singleton, TRUE)
    \/ \E dependency_id \in TaggedKeys, name \in TagNames :
          TagRegister(dependency_id, name)
    \/ \E dependency \in TaggedKeys : ContainerGet(Bare(dependency))
    \/ \E name \in TagNames : ContainerGetTagged(name)
    \/ \E g \in Iters : NewIter(g)
    \/ \E g \in Iters : TaggedNext(g)

\* Services are registered, with a factory that is given the key, and
\* tagged, then keys and tagged collections are
\* asked of the container and the collections iterated, on one thread.
TagContainerSpec == Init /\ [][TagContainerNext]_vars

\* ------------------------------------- TagProvider.register, several tags
\* What register is handed as a tag: a string, a Tag object, or something
\* else.
StrTag(name) == [kind |-> "str", name |-> name]
TagObject(name) == [kind |-> "Tag", name |-> name]
NotATag == [kind |-> "int", name |-> ""]
TagArgs == {StrTag("t"), StrTag("u"), TagObject("t"), NotATag}
\* The iterables of tags handed to register.
TagLists ==
    {<<>>} \cup {<<a>> : a \in TagArgs} \cup {<<a, b>> : a, b \in TagArgs}

\* Faulty variant: a tag name counts as used once any dependency carries it
AlreadyTaggedAnyKey(td, name, dependency_id) == name \in DOMAIN td

\* register: tag.name in self._tagged_dependencies and dependency_id in
\* self._tagged_dependencies[tag.name]
AlreadyTagged(td, name, dependency_id) ==
    /\ name \in DOMAIN td
    /\ \E k \in 1..Len(td[name]) : td[name][k].dependency = dependency_id

\* The for loop of register from the i-th tag on, td being the dict so far:
\* the dict it leaves and how the call ends.
RECURSIVE TagRegisterLoop(_, _, _, _)
TagRegisterLoop(td, dependency_id, tags, i) ==
    IF i > Len(tags) THEN [tagged |-> td, out |-> Returned(PyNone)]
    ELSE LET tag == tags[i]
         IN IF tag.kind \notin {"str", "Tag"}
            THEN [tagged |-> td,
                  out |-> Raised(ValueError("Expecting tag of type Tag"))]
            ELSE IF AlreadyTagged(td, tag.name, dependency_id)
            THEN [tagged |-> td,
                  out |-> Raised(<<Exc("DuplicateTagError", tag.name, <<>>)>>)]
            ELSE TagRegisterLoop(
                    DictSet(td, tag.name,
                            Append(IF tag.name \in DOMAIN td
                                   THEN td[tag.name] ELSE <<>>,
                                   [dependency |-> dependency_id,
                                    tag |-> Tag(tag.name)])),
                    dependency_id, tags, i + 1)

\* TagProvider.register(dependency_id, tags)
TagRegisterTags(dependency_id, tags) ==
    /\ LET end == TagRegisterLoop(tagged, dependency_id, tags, 1)
       IN /\ tagged' = end.tagged
          /\ fres' = [op |-> "tag.register",
                      key |-> [dependency |-> dependency_id, tags |-> tags],
                      factory |-> "", out |-> end.out]
    /\ UNCHANGED <<idle, singletons, nops, factories, invoked, getters,
                   collection, iters>>

TagRegisterNext ==
    \E dependency_id \in TaggedKeys, tags \in TagLists :
       TagRegisterTags(dependency_id, tags)

\* Dependencies are tagged, several tags at a time.
TagRegisterSpec == Init /\ [][TagRegisterNext]_vars

\* ------------------------------------------------- InjectedCallableWrapper
\* Injection.__init__; dependency is NoneKey for a parameter without key.
Injection(arg_name, required, dependency) ==
    [arg_name |-> arg_name, required |-> required, dependency |-> dependency]

\* The ways a wrapped callable f(a, b) is reached.  kind says what f is in
\* its class, wrapper whether the wrapper is the class attribute ("outer":
\* it wraps the function, or the classmethod or staticmethod object) or sits
\* inside classmethod()/staticmethod() ("inner"), via through what it is
\* looked up.  classmethod.__get__ either calls the __get__ of what it
\* wraps (chain) or binds it as a method of the class, depending on the
\* version of the interpreter.
Shapes ==
    {[kind |-> "function", wrapper |-> "outer", via |-> "direct",
      chain |-> FALSE]}
    \cup {[kind |-> "method", wrapper |-> "outer", via |-> v, chain |-> FALSE] :
             v \in {"class", "instance"}}
    \cup {[kind |-> k, wrapper |-> "outer", via |-> v, chain |-> FALSE] :
             k \in {"classmethod", "staticmethod"}, v \in {"class", "instance"}}
    \cup {[kind |-> "staticmethod", wrapper |-> "inner", via |-> v,
           chain |-> FALSE] : v \in {"class", "instance"}}
    \cup {[kind |-> "classmethod", wrapper |-> "inner", via |-> v,
           chain |-> c] : v \in {"class", "instance"}, c \in BOOLEAN}

\* The objects a call binds without the caller writing them.
TheObject == UserValue("obj")
TheClass == UserValue("cls")
\* The declared default of a parameter.
Default(name) == [tag |-> "default", id |-> name, prov |-> 0, n |-> 0]

\* The blueprint of f: one entry for the receiver, if f declares one, then
\* the entries of a and b.
Blueprint(shape, entries) ==
    (IF shape.kind = "method" THEN <<Injection("self", TRUE, NoneKey)>>
     ELSE IF shape.kind = "classmethod" THEN <<Injection("cls", TRUE, NoneKey)>>
     ELSE <<>>) \o entries

\* The instance argument of the wrapper's __get__: "" when __get__ is not
\* called, "None" for a lookup through the class.
GetInstance(shape) ==
    IF shape.kind = "function" THEN ""
    ELSE IF shape.wrapper = "outer"
    THEN (IF shape.via = "instance" THEN "obj" ELSE "None")
    ELSE IF shape.kind = "classmethod" /\ shape.chain THEN "cls"
    ELSE ""

\* __get__: skip_self = instance is not None (FALSE without __get__)
SkipSelf(shape) == GetInstance(shape) \notin {"", "None"}

\* __get__: what func = self.__wrapped__.__get__(instance, owner) has bound
WrappedBound(shape) ==
    IF GetInstance(shape) = "" THEN <<>>
    ELSE IF shape.kind = "classmethod" THEN <<TheClass>>
    ELSE IF shape.kind = "method" /\ shape.via = "instance" THEN <<TheObject>>
    ELSE <<>>

\* What the interpreter puts before the caller's arguments when it calls
\* the wrapper: the class, for a wrapper bound by classmethod as a method.
Prepended(shape) ==
    IF shape.kind = "classmethod" /\ shape.wrapper = "inner" /\ ~shape.chain
    THEN <<TheClass>> ELSE <<>>

\* container.provide(dependency) of a container without provider: the
\* singleton, or SENTINEL.
ProvideOrSentinel(k) ==
    IF k \in DOMAIN singletons THEN singletons[k] ELSE SENTINEL

\* _inject_kwargs: the loop over blueprint.injections[offset:] from the
\* entry at index i (from 1) on; asked lists the keys asked of the container.
RECURSIVE InjectKwargsLoop(_, _, _, _)
InjectKwargsLoop(injections, i, kwargs, asked) ==
    IF i > Len(injections)
    THEN [kwargs |-> kwargs, asked |-> asked, out |-> Returned(PyNone)]
    ELSE LET injection == injections[i]
         IN IF injection.dependency /= NoneKey
               /\ injection.arg_name \notin DOMAIN kwargs
            THEN LET instance == ProvideOrSentinel(injection.dependency)
                     asked2 == Append(asked, injection.dependency)
                 IN IF instance /= SENTINEL
                    THEN InjectKwargsLoop(
                            injections, i + 1,
                            DictSet(kwargs, injection.arg_name, instance),
                            asked2)
                    ELSE IF injection.required
                    THEN [kwargs |-> kwargs, asked |-> asked2,
                          out |-> Raised(
                              DependencyNotFoundError(injection.dependency))]
                    ELSE InjectKwargsLoop(injections, i + 1, kwargs, asked2)
            ELSE InjectKwargsLoop(injections, i + 1, kwargs, asked)

\* self.__wrapped__(*args, **kwargs): the interpreter binds the arguments to
\* the declared parameters, or raises TypeError.
CallWrapped(injections, args, kwargs) ==
    LET n == Len(injections)
        name(i) == injections[i].arg_name
    IN IF Len(args) > n
       THEN Raised(TypeError("too many positional arguments"))
       ELSE IF \E i \in 1..Len(args) : name(i) \in DOMAIN kwargs
       THEN Raised(TypeError("multiple values for argument"))
       ELSE IF \E i \in (Len(args) + 1)..n :
                  name(i) \notin DOMAIN kwargs /\ injections[i].required
       THEN Raised(TypeError("missing required argument"))
       ELSE Returned([i \in 1..n |->
                         IF i <= Len(args) THEN args[i]
                         ELSE IF name(i) \in DOMAIN kwargs THEN kwargs[name(i)]
                         ELSE Default(name(i))])

\* container[k] = instance, during setup
SetupSingleton(k) ==
    /\ fres.op = "none"
    /\ k \notin DOMAIN singletons
    /\ singletons' = DictSet(singletons, k, Instance(k, 0, 1))
    /\ UNCHANGED <<idle, nops, pvars>>

\* InjectedCallableWrapper.__call__(*args, **kwargs), reached through shape.
\* fres keeps the call and what it ended with, invoked the keys asked of the
\* container by this call followed by the call of the wrapped callable, if
\* it was made.  The call changes nothing in the container, so one call is
\* followed per behaviour.
WrapperCall(shape, entries, args, kwargs) ==
    /\ fres.op = "none"
    /\ LET blueprint == Blueprint(shape, entries)
           seen == Prepended(shape) \o args
           offset == (IF SkipSelf(shape) THEN 1 ELSE 0) + Len(seen)
           inj == InjectKwargsLoop(blueprint, offset + 1, kwargs, <<>>)
           passed == WrappedBound(shape) \o seen
       IN /\ fres' = [op |-> "call",
                      key |-> [shape |-> shape, entries |-> entries,
                               args |-> args, kwargs |-> kwargs,
                               offset |-> offset],
                      factory |-> "",
                      out |-> IF inj.out.status = "raised" THEN inj.out
                              ELSE CallWrapped(blueprint, passed, inj.kwargs)]
          /\ invoked' =
                [i \in 1..Len(inj.asked) |->
                    Invocation("provide", <<inj.asked[i]>>, <<>>)]
                \o (IF inj.out.status = "raised" THEN <<>>
                    ELSE <<Invocation("wrapped", passed, inj.kwargs)>>)
    /\ UNCHANGED <<idle, singletons, nops, factories, getters, tagged,
                   collection, iters>>

\* The keys of the blueprints, the entries of a and b (a parameter with a
\* default is not followed by one without), and what the caller passes.
InjectKeys == {"A", "B"}
Entries ==
    {<<Injection("a", ra, da), Injection("b", rb, db)>> :
        ra \in BOOLEAN, rb \in {FALSE}, da \in {NoneKey, "A"},
        db \in {NoneKey, "B"}}
    \cup {<<Injection("a", TRUE, da), Injection("b", TRUE, db)>> :
             da \in {NoneKey, "A"}, db \in {NoneKey, "B"}}
CallerArgs == {<<>>, <<UserValue("x1")>>, <<UserValue("x1"), UserValue("x2")>>}
CallerKwargs ==
    {<<>>, DictSet(<<>>, "a", UserValue("ka")),
     DictSet(<<>>, "b", UserValue("kb")),
     DictSet(DictSet(<<>>, "a", UserValue("ka")), "b", UserValue("kb"))}

WrapperNext ==
    \/ \E k \in InjectKeys : SetupSingleton(k)
    \/ \E shape \in Shapes, entries \in Entries, args \in CallerArgs,
          kwargs \in CallerKwargs : WrapperCall(shape, entries, args, kwargs)

\* Some keys are set in a container without provider, and injected
\* callables of every shape are called.
WrapperSpec == Init /\ [][WrapperNext]_vars

\* ----------------------------------------------- _build_injection_blueprint
\* What the signature inspection gives for f(a, b): the name of each
\* parameter and whether it has a default.
Argument(name, has_default) == [name |-> name, has_default |-> has_default]
ArgumentLists ==
    {<<Argument("a", da), Argument("b", db)>> :
        da \in BOOLEAN, db \in BOOLEAN} \ 
    {<<Argument("a", TRUE), Argument("b", FALSE)>>}

\* The annotations typing.get_type_hints returns: a class, a builtin type,
\* a typing construct, or none for the parameter.
BuiltinTypes == {"int"}
TypingTypes == {"Optional"}
TypeHintDicts ==
    {<<>>} \cup
    {DictSet(<<>>, "a", h) : h \in {"Service", "int", "Optional"}} \cup
    {DictSet(<<>>, "b", h) : h \in {"Service", "int"}} \cup
    {DictSet(DictSet(<<>>, "a", h), "b", "Service") : h \in {"Other", "int"}}

\* arg_map: None, a mapping, an iterable, or a callable (given as the
\* mapping of each name to what it returns).
ArgMaps ==
    {[kind |-> "None", map |-> <<>>, seq |-> <<>>]}
    \cup {[kind |-> "mapping", map |-> DictSet(<<>>, n, v), seq |-> <<>>] :
             n \in {"a", "b", "z"}, v \in {"Mapped", NoneKey}}
    \cup {[kind |-> "iterable", map |-> <<>>, seq |-> s] :
             s \in {<<"First">>, <<NoneKey, "Second">>, <<NoneKey>>,
                    <<"First", "Second", "Third">>}}
    \cup {[kind |-> "callable",
           map |-> DictSet(DictSet(<<>>, "a", va), "b", "Called"),
           seq |-> <<>>] : va \in {"Called", NoneKey}}

\* use_names and use_type_hints: a boolean, or an iterable of names.
Flags ==
    {[kind |-> "bool", value |-> v, names |-> {}] : v \in BOOLEAN}
    \cup {[kind |-> "iterable", value |-> FALSE, names |-> ns] :
             ns \in {{"a"}, {"b"}}}

\* Faulty variant: the None values of arg_map are kept
BuildArgToDependencyKeepsNone(arguments, arg_map) ==
    IF arg_map.kind = "iterable"
    THEN [n \in {arguments[i].name :
                    i \in 1..(IF Len(arg_map.seq) < Len(arguments)
                              THEN Len(arg_map.seq) ELSE Len(arguments))} |->
             arg_map.seq[CHOOSE i \in 1..Len(arguments) : arguments[i].name = n]]
    ELSE arg_map.map

\* _build_arg_to_dependency: the dict of the explicit dependencies, the
\* None values removed.
BuildArgToDependency(arguments, arg_map) ==
    LET arg_to_dependency ==
           IF arg_map.kind = "iterable"
           THEN [n \in {arguments[i].name :
                           i \in 1..(IF Len(arg_map.seq) < Len(arguments)
                                     THEN Len(arg_map.seq)
                                     ELSE Len(arguments))} |->
                    arg_map.seq[CHOOSE i \in 1..Len(arguments) :
                                   arguments[i].name = n]]
           ELSE arg_map.map
    IN [k \in {x \in DOMAIN arg_to_dependency :
                  arg_to_dependency[x] /= NoneKey} |-> arg_to_dependency[k]]

\* _build_type_hints: the hints kept when use_type_hints is not False,
\* restricted to the names of an iterable, builtin and typing types removed.
BuildTypeHints(type_hints, use_type_hints) ==
    LET hints == IF use_type_hints.kind = "bool" /\ ~use_type_hints.value
                 THEN <<>> ELSE type_hints
        named == IF use_type_hints.kind = "iterable"
                 THEN [n \in (DOMAIN hints) \cap use_type_hints.names |->
                          hints[n]]
                 ELSE hints
    IN [n \in {x \in DOMAIN named :
                  named[x] \notin TypingTypes \cup BuiltinTypes} |-> named[n]]

\* _build_dependency_names
BuildDependencyNames(arguments, use_names) ==
    IF use_names.kind = "bool"
    THEN (IF use_names.value
          THEN {arguments[i].name : i \in 1..Len(arguments)} ELSE {})
    ELSE use_names.names

\* _build_injection_blueprint: the Injection records of the blueprint.
BuildInjectionBlueprint(arguments, arg_map, use_names, use_type_hints, type_hints) ==
    LET arg_to_dependency == BuildArgToDependency(arguments, arg_map)
        hints == BuildTypeHints(type_hints, use_type_hints)
        dependency_names == BuildDependencyNames(arguments, use_names)
        dependency(arg) ==
           IF arg.name \in DOMAIN arg_to_dependency
           THEN arg_to_dependency[arg.name]
           ELSE IF arg.name \in DOMAIN hints THEN hints[arg.name]
           ELSE IF arg.name \in dependency_names THEN arg.name
           ELSE NoneKey
    IN [i \in 1..Len(arguments) |->
           Injection(arguments[i].name, ~arguments[i].has_default,
                     dependency(arguments[i]))]

\* inject(f, arg_map=..., use_names=..., use_type_hints=...) builds the
\* blueprint of f; fres keeps what was asked and the blueprint.
BuildBlueprint(arguments, arg_map, use_names, use_type_hints, type_hints) ==
    /\ fres.op = "none"
    /\ fres' = [op |-> "blueprint",
                key |-> [arguments |-> arguments, arg_map |-> arg_map,
                         use_names |-> use_names,
                         use_type_hints |-> use_type_hints,
                         type_hints |-> type_hints],
                factory |-> "",
                out |-> Returned(BuildInjectionBlueprint(
                           arguments, arg_map, use_names, use_type_hints,
                           type_hints))]
    /\ UNCHANGED <<idle, singletons, nops, factories, invoked, getters,
                   tagged, collection, iters>>

\* One blueprint is built, for any of the callables and options.
BlueprintSpec ==
    Init /\ [][\E arguments \in ArgumentLists, arg_map \in ArgMaps,
                  use_names \in Flags, use_type_hints \in Flags,
                  type_hints \in TypeHintDicts :
                    BuildBlueprint(arguments, arg_map, use_names,
                                   use_type_hints, type_hints)]_vars

\* ------------- a tagged collection and the container's lock, thread by thread
\* One collection object is shared by two threads.  Thread t1 iterates it
\* (generator i1).  Thread t2 asks the container for Y, whose factory body
\* iterates the collection (generator i2); when Y is tagged, the getter of
\* i1 reaches that factory on t1 as well.  The getter of a tagged
\* dependency d is container[d], run statement by statement:
\*   pc "check1"    provide's first lookup in _singletons
\*      "lock"      waiting for _instantiation_lock
\*      "push"      entering instantiating(d)
\*      "check2"    the lookup under the lock
\*      "factory"   the provider is about to call the factory
\*      "iterating" the factory body is inside list(collection)
\*      "pop"       the finally of instantiating(d)
\*      "release"   leaving the with block
\* and a generator whose getter is running is in phase "getting".
IteratingFactories == {"Y"}
\* The generator of the iteration made at top level, and the one made by
\* the factory body.
TopGenerator == "i1"
FactoryGenerator == "i2"
IteratingThread == "t1"
CallingThread == "t2"

\* The generator whose getter made the top call of thread t ("" when the
\* application made it).
CallerGenerator(t) ==
    IF Len(frames[t]) >= 2 THEN FactoryGenerator
    ELSE IF t = IteratingThread THEN TopGenerator
    ELSE ""

\* The thread a generator runs on.
GeneratorThread(g) ==
    IF g = TopGenerator THEN IteratingThread
    ELSE CHOOSE t \in Threads :
            \E i \in 1..Len(frames[t]) : frames[t][i].pc = "iterating"

\* What leaves a statement of container[d] alone.
LockIdle == <<providers, res, calls, stored, explicit, nops, factories,
              getters, tagged, methods, class_dicts>>

\* The call container[d] made by thread t ends with out: the generator
\* whose getter it was appends the instance, or is left by the exception,
\* which releases the collection's lock on its way out of the with block.
GetterReturns(t, out) ==
    LET g == CallerGenerator(t)
    IN IF g = ""
       THEN /\ UNCHANGED <<collection, iters>>
            /\ fres' = [op |-> "get", key |-> Top(t).key, factory |-> "",
                        out |-> out]
       ELSE IF out.status = "returned"
       THEN /\ collection' = [collection EXCEPT
                                 !.instances = Append(@, out.value)]
            /\ iters' = [iters EXCEPT ![g].phase = "unlock"]
            /\ UNCHANGED fres
       ELSE /\ collection' = [collection EXCEPT !.lock = ""]
            /\ iters' = [iters EXCEPT ![g].phase = "done", ![g].getter = ""]
            /\ fres' = [op |-> "next", key |-> g, factory |-> "", out |-> out]

\* The calls of thread t once its top call has ended with out: an exception
\* that leaves a getter inside a factory body is on its way out of that body.
CallerFrames(t, out) ==
    LET rest == SubSeq(frames[t], 1, Len(frames[t]) - 1)
    IN IF out.status = "raised" /\ rest /= <<>>
       THEN [rest EXCEPT ![Len(rest)].out = out]
       ELSE rest

\* list(collection) at top level on the iterating thread.
IterateCollection ==
    /\ ~Busy(IteratingThread)
    /\ NewIter(TopGenerator)

\* container[Y] asked by the application on the calling thread.
GetIterating(k) ==
    /\ collection.made
    /\ ~Busy(CallingThread)
    /\ frames' = [frames EXCEPT ![CallingThread] = <<NewFrame(k)>>]
    /\ UNCHANGED <<LockIdle, singletons, lockOwner, lockCount, stack,
                   dependencies, invoked, fres, collection, iters>>

\* self._instances.append(getter()): the getter lambda calls container[d] on
\* the generator's thread.
DependenciesGetter(g) ==
    /\ iters[g].phase = "call"
    /\ iters' = [iters EXCEPT ![g].phase = "getting"]
    /\ frames' = [frames EXCEPT
                    ![GeneratorThread(g)] = Append(@, NewFrame(iters[g].getter))]
    /\ UNCHANGED <<LockIdle, singletons, lockOwner, lockCount, stack,
                   dependencies, invoked, fres, collection>>

\* provide: return self._singletons[dependency_id], before the lock
GetterFastPath(t) ==
    /\ At(t, "check1")
    /\ IF Bare(Top(t).key) \in DOMAIN singletons
       THEN /\ GetterReturns(t, Returned(singletons[Bare(Top(t).key)]))
            /\ frames' = [frames EXCEPT ![t] = SubSeq(@, 1, Len(@) - 1)]
       ELSE /\ frames' = SetTop(t, [Top(t) EXCEPT !.pc = "lock"])
            /\ UNCHANGED <<fres, collection, iters>>
    /\ UNCHANGED <<LockIdle, singletons, lockOwner, lockCount, stack,
                   dependencies, invoked>>

\* with self._instantiation_lock: RLock.acquire
GetterAcquireLock(t) ==
    /\ At(t, "lock")
    /\ lockOwner \in {NoThread, t}
    /\ lockOwner' = t
    /\ lockCount' = lockCount + 1
    /\ frames' = SetTop(t, [Top(t) EXCEPT !.pc = "push"])
    /\ UNCHANGED <<LockIdle, singletons, stack, dependencies, invoked, fres,
                   collection, iters>>

\* instantiating(dependency_id): push, or the cycle error
GetterPush(t) ==
    /\ At(t, "push")
    /\ IF InFlight(Top(t).key)
       THEN /\ frames' = SetTop(t, [Top(t) EXCEPT
                   !.pc = "release",
                   !.out = Raised(DependencyCycleError(CyclePath(Top(t).key)))])
            /\ UNCHANGED <<stack, dependencies>>
       ELSE /\ stack' = Append(stack, Top(t).key)
            /\ dependencies' = dependencies \cup {Top(t).key}
            /\ frames' = SetTop(t, [Top(t) EXCEPT !.pc = "check2",
                                                  !.pushed = TRUE])
    /\ UNCHANGED <<LockIdle, singletons, lockOwner, lockCount, invoked, fres,
                   collection, iters>>

\* provide: the lookup under the lock
GetterRecheck(t) ==
    /\ At(t, "check2")
    /\ frames' = SetTop(t,
          IF Bare(Top(t).key) \in DOMAIN singletons
          THEN [Top(t) EXCEPT !.pc = "pop",
                              !.out = Returned(singletons[Bare(Top(t).key)])]
          ELSE [Top(t) EXCEPT !.pc = "factory"])
    /\ UNCHANGED <<LockIdle, singletons, lockOwner, lockCount, stack,
                   dependencies, invoked, fres, collection, iters>>

\* The provider calls the factory: a plain body returns a new object, which
\* the container stores; the body of an iterating factory starts
\* list(collection).
GetterFactory(t) ==
    /\ At(t, "factory")
    /\ IF Top(t).key \in IteratingFactories
       THEN /\ iters' = [iters EXCEPT ![FactoryGenerator] = NewGenerator]
            /\ frames' = SetTop(t, [Top(t) EXCEPT !.pc = "iterating"])
            /\ UNCHANGED <<singletons, invoked>>
       ELSE /\ invoked' = Append(invoked, Resolve(Top(t).key))
            /\ singletons' = DictSet(singletons, Bare(Top(t).key),
                                     Resolved(Top(t).key, Len(invoked) + 1))
            /\ frames' = SetTop(t, [Top(t) EXCEPT
                   !.pc = "pop",
                   !.out = Returned(Resolved(Top(t).key, Len(invoked) + 1))])
            /\ UNCHANGED iters
    /\ UNCHANGED <<LockIdle, lockOwner, lockCount, stack, dependencies, fres,
                   collection>>

\* list(collection) inside the factory body has ended: with every instance,
\* and the body returns the object it builds, or with the exception that
\* left the generator (that of the getter, or the IndexError of the last
\* yield), which goes through provide's except clauses.
GetterFactoryEnds(t) ==
    /\ At(t, "iterating")
    /\ iters[FactoryGenerator].phase = "done"
    /\ IF Len(iters[FactoryGenerator].yielded) = Len(collection.tags)
       THEN /\ invoked' = Append(invoked, Resolve(Top(t).key))
            /\ singletons' = DictSet(singletons, Bare(Top(t).key),
                                     Resolved(Top(t).key, Len(invoked) + 1))
            /\ frames' = SetTop(t, [Top(t) EXCEPT
                   !.pc = "pop",
                   !.out = Returned(Resolved(Top(t).key, Len(invoked) + 1))])
       ELSE /\ frames' = SetTop(t, [Top(t) EXCEPT
                   !.pc = "pop",
                   !.out = ExceptClauses(
                              Top(t).key,
                              IF Top(t).out.status = "raised" THEN Top(t).out
                              ELSE Raised(<<Exc("IndexError", "", <<>>)>>))])
            /\ UNCHANGED <<singletons, invoked>>
    /\ iters' = [iters EXCEPT ![FactoryGenerator] = NoGenerator]
    /\ UNCHANGED <<LockIdle, lockOwner, lockCount, stack, dependencies, fres,
                   collection>>

\* InstantiationStack.pop, in the finally of instantiating()
GetterPop(t) ==
    /\ At(t, "pop")
    /\ stack' = SubSeq(stack, 1, Len(stack) - 1)
    /\ dependencies' = dependencies \ {stack[Len(stack)]}
    /\ frames' = SetTop(t, [Top(t) EXCEPT !.pc = "release"])
    /\ UNCHANGED <<LockIdle, singletons, lockOwner, lockCount, invoked, fres,
                   collection, iters>>

\* The lock is released on leaving the with block, then container[d]
\* returns or raises to its caller.
GetterReleaseLock(t) ==
    /\ At(t, "release")
    /\ lockCount' = lockCount - 1
    /\ lockOwner' = IF lockCount = 1 THEN NoThread ELSE lockOwner
    /\ GetterReturns(t, Top(t).out)
    /\ frames' = [frames EXCEPT ![t] = CallerFrames(t, Top(t).out)]
    /\ UNCHANGED <<LockIdle, singletons, stack, dependencies, invoked>>

\* One statement of a thread that is inside list(collection) or
\* container[d].
TagLockStep ==
    \/ \E g \in Iters : DependenciesResume(g)
    \/ \E g \in Iters : DependenciesLock(g)
    \/ \E g \in Iters : DependenciesPopLeft(g)
    \/ \E g \in Iters : DependenciesGetter(g)
    \/ \E g \in Iters : DependenciesUnlock(g)
    \/ \E g \in Iters : DependenciesYield(g)
    \/ \E t \in Threads : GetterFastPath(t)
    \/ \E t \in Threads : GetterAcquireLock(t)
    \/ \E t \in Threads : GetterPush(t)
    \/ \E t \in Threads : GetterRecheck(t)
    \/ \E t \in Threads : GetterFactory(t)
    \/ \E t \in Threads : GetterFactoryEnds(t)
    \/ \E t \in Threads : GetterPop(t)
    \/ \E t \in Threads : GetterReleaseLock(t)

TagLockNext ==
    \/ \E dependency_id \in TaggedKeys, name \in TagNames :
          TagRegister(dependency_id, name)
    \/ \E name \in TagNames : TagProvide(name)
    \/ IterateCollection
    \/ \E k \in IteratingFactories : GetIterating(k)
    \/ TagLockStep

\* Dependencies are tagged, then one collection is asked for, iterated by
\* one thread and, inside a factory, by the thread that resolves Y.
TagLockSpec == Init /\ [][TagLockNext]_vars

\* ------------------------------------------------------------------ wire
\* What wire(...) is handed as methods: nothing (None), an iterable of
\* names, or an object that is not iterable; and as dependencies: nothing, a
\* mapping, or an iterable that is not a mapping.
MethodsArgs ==
    {[kind |-> "None", names |-> <<>>],
     [kind |-> "tuple", names |-> <<"f">>],
     [kind |-> "tuple", names |-> <<"g", "h">>],
     [kind |-> "object", names |-> <<>>]}
DependenciesArgs == {"None", "mapping", "iterable"}
\* What the decorator is applied to: a class, or an object that is no class.
NotAClass == "1"

\* inspect.getmembers(cls, predicate): the functions of the class, sorted by
\* name.
MethodOrder == <<"f", "g", "h">>
GetMembers(cls) ==
    SelectSeq(MethodOrder, LAMBDA m : m \in DOMAIN class_dicts[cls])

\* for method_name in methods: setattr(cls, method_name, inject(wrapped)) for
\* the names found in cls.__dict__
InjectAll(cls, names) ==
    [m \in DOMAIN class_dicts[cls] |->
        class_dicts[cls][m]
        + Cardinality({i \in 1..Len(names) : names[i] = m})]

\* wire_methods(cls), the closure variable being cell: what the variable is
\* bound to afterwards, the methods of cls afterwards, and how the call ends.
WireMethodsOutcome(cell, cls) ==
    LET bound == IF cell.kind = "None"
                 THEN [cell EXCEPT !.kind = "map", !.names = GetMembers(cls)]
                 ELSE [cell EXCEPT !.kind = "tuple"]
        left == IF bound.kind = "map" THEN [bound EXCEPT !.names = <<>>]
                ELSE bound
    IN IF cls = NotAClass
       THEN [cell |-> cell, dict |-> <<>>,
             out |-> Raised(ValueError("Expecting a class"))]
       ELSE IF cell.kind = "object"
       THEN [cell |-> cell, dict |-> class_dicts[cls],
             out |-> Raised(ValueError(
                        "methods must be either None or an iterable."))]
       ELSE IF cell.dependencies = "iterable" /\ bound.kind = "map"
       THEN [cell |-> bound, dict |-> class_dicts[cls],
             out |-> Raised(TypeError("object of type 'map' has no len()"))]
       ELSE IF cell.dependencies = "iterable" /\ Len(bound.names) > 1
       THEN [cell |-> bound, dict |-> class_dicts[cls],
             out |-> Raised(ValueError(
                        "wire does not support an iterable for dependencies"))]
       ELSE [cell |-> left, dict |-> InjectAll(cls, bound.names),
             out |-> Returned(cls)]

\* decorator = wire(methods=..., dependencies=...)
Wire(arg, deps) ==
    /\ methods.kind = "unset"
    /\ methods' = [kind |-> arg.kind, names |-> arg.names,
                   dependencies |-> deps]
    /\ fres' = [op |-> "wire", key |-> "", factory |-> "",
                out |-> Returned("wire_methods")]
    /\ UNCHANGED class_dicts
    /\ UNCHANGED <<providers, singletons, lockOwner, lockCount, stack,
                   dependencies, frames, res, calls, stored, explicit, nops,
                   factories, invoked, getters, tagged, collection, iters>>

\* decorator(cls)
WireMethods(cls) ==
    /\ methods.kind /= "unset"
    /\ nops < MaxOps
    /\ LET end == WireMethodsOutcome(methods, cls)
       IN /\ methods' = end.cell
          /\ class_dicts' = IF cls = NotAClass THEN class_dicts
                            ELSE [class_dicts EXCEPT ![cls] = end.dict]
          /\ fres' = [op |-> "wire_methods", key |-> cls, factory |-> "",
                      out |-> end.out]
    /\ nops' = nops + 1
    /\ UNCHANGED <<providers, singletons, lockOwner, lockCount, stack,
                   dependencies, frames, res, calls, stored, explicit,
                   factories, invoked, getters, tagged, collection, iters>>

WireNext ==
    \/ \E arg \in MethodsArgs, deps \in DependenciesArgs : Wire(arg, deps)
    \/ \E cls \in Classes \cup {NotAClass} : WireMethods(cls)

\* A decorator is made by wire(...) and applied to classes, one after the
\* other.
WireSpec == Init /\ [][WireNext]_vars

\* ------------------------------------------------- vocabulary of the claims
\* The provider that answers for k: the first registered one that holds k
\* (0 when every registered provider declines).
Answering(k) ==
    IF \E i \in 1..Len(providers) : k \in DOMAIN providers[i]
    THEN CHOOSE i \in 1..Len(providers) :
            /\ k \in DOMAIN providers[i]
            /\ \A j \in 1..(i - 1) : k \notin DOMAIN providers[j]
    ELSE 0

\* k is registered as a singleton whose factory body returns.
SingletonKey(k) ==
    /\ Answering(k) /= 0
    /\ providers[Answering(k)][k].singleton
    /\ ~providers[Answering(k)][k].raises

\* k is registered as a non-singleton whose factory body returns.
NonSingletonKey(k) ==
    /\ Answering(k) /= 0
    /\ ~providers[Answering(k)][k].singleton
    /\ ~providers[Answering(k)][k].raises

\* This step is thread t leaving its top-level container[k].
Completes(t, k) ==
    /\ Len(frames[t]) = 1
    /\ frames[t][1].key = k
    /\ frames'[t] = <<>>

\* This step is a __setitem__, __delitem__ or update_singletons.
ExplicitStep == nops' /= nops /\ frames' = frames

GotInstance(t, k) ==
    /\ res[t].key = k
    /\ res[t].get.status = "returned"
    /\ res[t].get.value.tag = "inst"

\* ---------------------------------------------------------------- C1
\* C1: for a key k registered as singleton that no set/update/delete ever
\* touched, whatever the interleaving of the threads calling container[k],
\* the factory body of k runs at most once, and every caller that got an
\* answer got the instance of that single run (so it ran exactly once).
C1_OneConstruction ==
    \A k \in Keys :
        (SingletonKey(k) /\ k \notin DOMAIN explicit) =>
            /\ calls[k] <= 1
            /\ \A t \in Threads :
                (res[t].key = k /\ res[t].get.status = "returned") =>
                    /\ calls[k] = 1
                    /\ res[t].get.value = Instance(k, Answering(k), 1)
                    /\ res[t].provide = res[t].get

\* Two threads raced for the same uncached singleton: t1 built it and has
\* returned, t2 missed the unlocked lookup before that and now holds the
\* lock, about to look again.
C1_Witness ==
    \E k \in Keys, t1, t2 \in Threads :
        /\ t1 /= t2
        /\ SingletonKey(k) /\ k \notin DOMAIN explicit
        /\ GotInstance(t1, k) /\ res[t1].asked > 0
        /\ Len(frames[t2]) = 1 /\ Top(t2).key = k /\ Top(t2).pc = "check2"

\* ---------------------------------------------------------------- C2
\* C2: once a provider-built instance of k is in the cache, no step other
\* than a set/update/delete changes that entry or runs the factory body of k
\* again, and every container[k] that finishes returns the cached instance;
\* and a container[k] that returns for a singleton-registered k leaves
\* exactly the returned instance in the cache.
C2_SingletonReused ==
    [][\A k \in Keys :
        /\ (k \in DOMAIN singletons /\ singletons[k].tag = "inst"
            /\ ~ExplicitStep) =>
                /\ k \in DOMAIN singletons'
                /\ singletons'[k] = singletons[k]
                /\ calls'[k] = calls[k]
                /\ \A t \in Threads :
                    Completes(t, k) => res'[t].get = Returned(singletons[k])
        /\ \A t \in Threads :
            (Completes(t, k) /\ SingletonKey(k)
             /\ res'[t].get.status = "returned") =>
                /\ k \in DOMAIN singletons'
                /\ singletons'[k] = res'[t].get.value
      ]_vars

\* Both threads have finished container[k] for the same singleton and hold
\* the same instance; the second one found it in the cache without asking a
\* provider, and the factory body ran once.
C2_Witness ==
    \E k \in Keys, t1, t2 \in Threads :
        /\ t1 /= t2
        /\ SingletonKey(k)
        /\ GotInstance(t1, k) /\ GotInstance(t2, k)
        /\ res[t1].asked > 0 /\ res[t2].asked = 0
        /\ res[t1].get = res[t2].get
        /\ calls[k] = 1

\* ---------------------------------------------------------------- C3
\* C3: for a key k registered as non-singleton, the cache holds an entry for
\* k only if a set/update put it there (provide never writes one), two
\* callers never hold the same instance, and a container[k] that finishes
\* while k is not in the cache returns the instance built by the latest run
\* of the factory body of k.
C3_NonSingletonState ==
    \A k \in Keys :
        NonSingletonKey(k) =>
            /\ k \in DOMAIN singletons =>
                (k \in DOMAIN explicit /\ singletons[k] = explicit[k])
            /\ \A t1, t2 \in Threads :
                (t1 /= t2 /\ GotInstance(t1, k) /\ GotInstance(t2, k)) =>
                    res[t1].get.value /= res[t2].get.value
            /\ \A t \in Threads :
                GotInstance(t, k) =>
                    /\ res[t].get.value.n >= 1
                    /\ res[t].get.value.n <= calls[k]

C3_NonSingleton ==
    /\ []C3_NonSingletonState
    /\ [][\A k \in Keys, t \in Threads :
            (Completes(t, k) /\ NonSingletonKey(k)
             /\ k \notin DOMAIN singletons) =>
                /\ calls[k] >= 1
                /\ res'[t].get =
                     Returned(Instance(k, Answering(k), calls[k]))
                /\ res'[t].asked = Answering(k)
                /\ singletons' = singletons
       ]_vars

\* Both threads asked for the non-singleton k; the factory body ran twice and
\* they hold different instances, and the cache has no entry for k.
C3_Witness ==
    \E k \in Keys, t1, t2 \in Threads :
        /\ NonSingletonKey(k)
        /\ GotInstance(t1, k) /\ GotInstance(t2, k)
        /\ res[t1].get.value /= res[t2].get.value
        /\ calls[k] = 2
        /\ k \notin DOMAIN singletons

\* ---------------------------------------------------------------- C4
\* The keys of the cycle closed by a request for k: those on the stack from
\* the first occurrence of k to the top.
CycleKeys(k) == {stack[j] : j \in FirstIndex(stack, k, 1)..Len(stack)}

PathKeys(out) == {out.exc[1].path[j] : j \in 1..Len(out.exc[1].path)}

\* C4: a provide(k) made by a factory while k is in flight on the same
\* thread never gets past the push: it misses the cache, takes the lock its
\* thread already holds, finds k in flight, consults no provider, never
\* pushes, and leaves with a cycle error whose path contains every key of
\* the cycle.
C4_CycleDetected ==
    \A t \in Threads :
        \A i, j \in 1..Len(frames[t]) :
            (i < j /\ frames[t][i].key = frames[t][j].key) =>
                LET f == frames[t][j] IN
                /\ f.pc \in {"check1", "lock", "push", "release"}
                /\ ~f.pushed
                /\ f.asked = 0
                /\ j = Len(frames[t])
                /\ f.key \in dependencies
                /\ f.key \notin DOMAIN singletons
                /\ lockOwner = t
                /\ f.pc = "release" =>
                    /\ IsCycleError(f.out)
                    /\ Len(f.out.exc) = 1
                    /\ CycleKeys(f.key) \cup {f.key} \subseteq PathKeys(f.out)

\* A needs B and B needs A (or the other way round): the innermost request
\* has just failed in push with the cycle error naming both.
C4_Witness ==
    \E t \in Threads :
        /\ Len(frames[t]) >= 3
        /\ Top(t).pc = "release" /\ ~Top(t).pushed
        /\ IsCycleError(Top(t).out)
        /\ {"A", "B"} \subseteq PathKeys(Top(t).out)
        /\ Top(t).key \in dependencies

\* ---------------------------------------------------------------- C5
\* A request has just failed in push: it holds the lock, has pushed nothing
\* and is leaving with the cycle error (the stack is as push found it).
CycleRaised(t) ==
    /\ Busy(t)
    /\ Top(t).pc = "release"
    /\ ~Top(t).pushed

\* C5 as stated: the cycle error carries the keys from the first occurrence
\* of the key in the stack through the top of the stack, then the key again,
\* and nothing pushed before that first occurrence.
C5_PathFromFirstOccurrence ==
    \A t \in Threads :
        CycleRaised(t) =>
            Top(t).out.exc[1].path =
                SubSeq(stack, FirstIndex(stack, Top(t).key, 1), Len(stack))
                    \o <<Top(t).key>>

\* C5 amended: the cycle error carries the whole instantiation stack, from
\* its bottom to its top (keys pushed before the first occurrence of the key
\* included), followed by the key.
C5_PathIsWholeStack ==
    \A t \in Threads :
        CycleRaised(t) =>
            /\ IsCycleError(Top(t).out)
            /\ Top(t).out.exc[1].path = stack \o <<Top(t).key>>
            /\ Top(t).out.exc[1].path[1] = frames[t][1].key

\* The cycle was reached through a key that is not part of it: the key that
\* closes the cycle is not at the bottom of the stack.
C5_Witness ==
    \E t \in Threads :
        /\ CycleRaised(t)
        /\ FirstIndex(stack, Top(t).key, 1) > 1
        /\ Len(Top(t).out.exc[1].path) = Len(stack) + 1

\* ---------------------------------------------------------------- C6
HasCycleLink(e) ==
    \E i \in 1..Len(e) : e[i].type = "DependencyCycleError"

\* C6: a cycle error is never part of a cause chain (nothing wraps it), and
\* a provide() that leaves with a cycle error hands exactly that error to
\* the factory that asked, which leaves with it in turn, up to the caller of
\* container[k].
C6_CycleErrorNeverWrapped ==
    \A t \in Threads :
        /\ \A i \in 1..Len(frames[t]) :
               HasCycleLink(frames[t][i].out.exc) =>
                   Len(frames[t][i].out.exc) = 1
        /\ HasCycleLink(res[t].get.exc) =>
               (Len(res[t].get.exc) = 1 /\ res[t].provide = res[t].get)

C6_CycleErrorVerbatim ==
    /\ []C6_CycleErrorNeverWrapped
    /\ [][\A t \in Threads :
            (At(t, "release") /\ IsCycleError(Top(t).out)
             /\ frames'[t] /= frames[t]) =>
                IF Len(frames[t]) = 1
                THEN /\ res'[t].provide = Top(t).out
                     /\ res'[t].get = Top(t).out
                ELSE /\ Len(frames'[t]) = Len(frames[t]) - 1
                     /\ frames'[t][Len(frames'[t])].out = Top(t).out
                     /\ frames'[t][Len(frames'[t])].pc = "pop"
       ]_vars

\* container["C"] has failed with the cycle error raised three calls deeper
\* (C -> A -> B -> A).
C6_Witness ==
    \E t \in Threads :
        /\ res[t].key = "C"
        /\ res[t].get = Raised(DependencyCycleError(<<"C", "A", "B", "A">>))

\* ---------------------------------------------------------------- C7
IsInstantiationError(out) ==
    /\ out.status = "raised"
    /\ out.exc[1].type = "DependencyInstantiationError"

\* C7 as stated: the instantiation error seen by the caller of container[k]
\* has the original exception as its direct cause, never another
\* instantiation error.
C7_WrappedOnceOverall ==
    \A t \in Threads :
        IsInstantiationError(res[t].get) =>
            /\ Len(res[t].get.exc) >= 2
            /\ res[t].get.exc[2].type /= "DependencyInstantiationError"

\* The keys a registered factory for k asks the container for.
NeedsOf(k) ==
    IF Answering(k) = 0 THEN {}
    ELSE LET needs == providers[Answering(k)][k].needs
         IN {needs[i] : i \in 1..Len(needs)}

\* C7 amended: an exception other than a cycle error is wrapped once by
\* every provide() it leaves.  The error seen by the caller of container[k]
\* is an instantiation error for k; its cause chain holds one instantiation
\* error per nested provide() on the way to the failure (each for a
\* dependency of the previous one) and ends with the original exception,
\* which is the direct cause only when k's own factory raised it.
C7_WrappedOncePerProvide ==
    \A t \in Threads :
        (res[t].get.status = "raised" /\ ~IsCycleError(res[t].get)
         /\ res[t].provide.status = "raised") =>
            LET e == res[t].get.exc
                n == Len(e)
            IN /\ n >= 2
               /\ e[1].key = res[t].key
               /\ \A i \in 1..(n - 1) :
                      e[i].type = "DependencyInstantiationError"
               /\ \A i \in 1..(n - 2) : e[i + 1].key \in NeedsOf(e[i].key)
               /\ \/ e[n].type = "FactoryError" /\ e[n].key = e[n - 1].key
                  \/ /\ e[n].type = "DependencyNotFoundError"
                     /\ e[n].key \in NeedsOf(e[n - 1].key)

\* container["P"] has failed: P's factory needs F, whose factory body raised.
C7_Witness ==
    \E t \in Threads :
        /\ res[t].key = "P"
        /\ IsInstantiationError(res[t].get)
        /\ Len(res[t].get.exc) = 3
        /\ res[t].get.exc[2].type = "DependencyInstantiationError"
        /\ res[t].get.exc[3].type = "FactoryError"

\* ---------------------------------------------------------------- C8
\* C8 as stated: a container[k] that failed with an instantiation error has
\* written nothing to the singleton cache.
C8_CacheUntouched ==
    \A t \in Threads :
        IsInstantiationError(res[t].get) => stored[t] = {}

ErrorKeys(e) ==
    {e[i].key : i \in {j \in 1..Len(e) :
                          e[j].type = "DependencyInstantiationError"}}

\* C8 amended: a container[k] that fails with an instantiation error writes
\* no cache entry for k nor for any dependency whose resolution failed; the
\* singleton dependencies that were built before the failure stay cached
\* (the entries it wrote are for singleton-registered keys whose factory
\* body returned), and when the call ends k is not in the cache.
C8_FailedKeysNotCachedState ==
    \A t \in Threads :
        IsInstantiationError(res[t].get) =>
            /\ stored[t] \cap ErrorKeys(res[t].get.exc) = {}
            /\ res[t].key \notin stored[t]
            /\ \A k \in stored[t] : SingletonKey(k) /\ calls[k] >= 1

C8_FailedKeysNotCached ==
    /\ []C8_FailedKeysNotCachedState
    /\ [][\A t \in Threads, k \in Keys :
            (Completes(t, k) /\ IsInstantiationError(res'[t].get)) =>
                /\ k \notin DOMAIN singletons'
                /\ singletons' = singletons
                /\ \A d \in stored[t] :
                       /\ d \in DOMAIN singletons'
                       /\ singletons'[d].tag = "inst"
                       /\ singletons'[d].id = d
       ]_vars

\* container["P"] has failed with an instantiation error after building and
\* caching S.
C8_Witness ==
    \E t \in Threads :
        /\ res[t].key = "P"
        /\ IsInstantiationError(res[t].get)
        /\ stored[t] = {"S"}
        /\ "S" \in DOMAIN singletons
        /\ "P" \notin DOMAIN singletons

\* ---------------------------------------------------------------- C9
\* C9: container[k] raises the not-found error for k exactly when provide(k)
\* returned the sentinel; and a container[k] that ends while k is not in the
\* cache and every registered provider declines k has asked every provider,
\* got the sentinel from provide (no exception), raises the not-found error,
\* and has changed nothing in the cache.
C9_NotFoundIffSentinel ==
    \A t \in Threads :
        res[t].key /= "" =>
            /\ (res[t].get = Raised(DependencyNotFoundError(res[t].key)))
                   <=> (res[t].provide = Returned(SENTINEL))
            /\ (res[t].get.status = "raised"
                /\ res[t].get.exc[1].type = "DependencyNotFoundError")
                   => res[t].provide.status = "returned"

C9_DeclinedIsNotFound ==
    /\ []C9_NotFoundIffSentinel
    /\ [][\A t \in Threads, k \in Keys :
            (Completes(t, k) /\ Answering(k) = 0
             /\ k \notin DOMAIN singletons) =>
                /\ res'[t].provide = Returned(SENTINEL)
                /\ res'[t].get = Raised(DependencyNotFoundError(k))
                /\ res'[t].asked = Len(providers)
                /\ stored'[t] = {}
                /\ singletons' = singletons
                /\ calls' = calls
       ]_vars

\* container["U"] has ended with the not-found error after both registered
\* providers declined.
C9_Witness ==
    \E t \in Threads :
        /\ res[t].key = "U"
        /\ Len(providers) = 2
        /\ res[t].asked = 2
        /\ res[t].provide = Returned(SENTINEL)
        /\ res[t].get = Raised(DependencyNotFoundError("U"))

\* ---------------------------------------------------------------- C10
\* k holds a value given by the last set/update of k (no delete since).
ExplicitlySet(k) == k \in DOMAIN explicit /\ explicit[k] /= Deleted

\* C10: as long as the last set/update/delete of k was a set/update to v,
\* the cache holds v for k (no provide overwrites it), and every
\* container[k] that ends returns v without asking a provider or running a
\* factory.
C10_SetValueKept ==
    \A k \in Keys : ExplicitlySet(k) =>
        (k \in DOMAIN singletons /\ singletons[k] = explicit[k])

RemovesEntry(k) ==
    /\ k \in DOMAIN singletons
    /\ k \notin DOMAIN singletons'

\* C11: the entry of k leaves the cache only by the explicit delete of k
\* (which removes that entry and no other); an entry is replaced only by an
\* explicit set/update of that very key, never by a get; an entry appears
\* outside the explicit operations only by a fresh run of k's factory; and a
\* get(k) of a singleton key that ends after k was deleted returns a
\* provider-built instance that is cached, built by a new factory run when
\* this get found the slot empty.
C11_EntryStaysUntilDeleted ==
    [][\A k \in Keys :
        /\ RemovesEntry(k) =>
              /\ ExplicitStep
              /\ singletons' = DictDel(singletons, k)
              /\ k \in DOMAIN explicit' /\ explicit'[k] = Deleted
        /\ (k \in DOMAIN singletons /\ k \in DOMAIN singletons'
               /\ singletons'[k] /= singletons[k]) =>
              /\ ExplicitStep
              /\ k \in DOMAIN explicit' /\ explicit'[k] = singletons'[k]
        /\ (k \notin DOMAIN singletons /\ k \in DOMAIN singletons'
               /\ ~ExplicitStep) =>
              /\ calls'[k] = calls[k] + 1
              /\ singletons'[k] = Instance(k, Answering(k), calls'[k])
        /\ \A t \in Threads :
              (Completes(t, k) /\ SingletonKey(k)
                  /\ k \in DOMAIN explicit /\ explicit[k] = Deleted) =>
                 /\ res'[t].get.status = "returned"
                 /\ res'[t].get.value.tag = "inst"
                 /\ res'[t].get.value.n <= calls[k]
                 /\ k \in DOMAIN singletons'
                 /\ singletons'[k] = res'[t].get.value
                 /\ res'[t].asked > 0 =>
                       /\ k \in stored[t]
                       /\ res'[t].get.value.n = calls[k]]_vars

\* Every cached instance was made by a factory run that has happened.
C11_InstancesNumbered ==
    \A k \in DOMAIN singletons :
        singletons[k].tag = "inst" => singletons[k].n \in 1..calls[k]

C11_DeleteThenRebuild == []C11_InstancesNumbered /\ C11_EntryStaysUntilDeleted

\* S was built, deleted, and asked for again: the providers were consulted,
\* the factory ran a second time and its instance is the cached one.
C11_Witness ==
    /\ "S" \in DOMAIN explicit /\ explicit["S"] = Deleted
    /\ calls["S"] = 2
    /\ "S" \in DOMAIN singletons
    /\ singletons["S"] = Instance("S", 1, 2)
    /\ \E t \in Threads :
          /\ res[t].key = "S"
          /\ res[t].asked = 1
          /\ res[t].get = Returned(Instance("S", 1, 2))

\* ---------------------------------------------------------------- C12
\* What a provide() call that went to the providers knows at each position:
\* in the loop, exactly the providers before the current one were asked and
\* all of them declined; once a provider answered, it is the first one that
\* holds the key and none after it was asked; the sentinel is returned only
\* when every registered provider was asked and declined.
C12_FrameInOrder(f) ==
    /\ f.pc = "loop" =>
          /\ f.prov \in 1..(Len(providers) + 1)
          /\ f.asked = f.prov - 1
          /\ \A j \in 1..(f.prov - 1) : f.key \notin DOMAIN providers[j]
    /\ f.pc = "factory" =>
          /\ f.prov = Answering(f.key)
          /\ f.asked = f.prov
    /\ (f.pc \in {"pop", "release"} /\ f.asked > 0) =>
          IF Answering(f.key) = 0
          THEN f.asked = Len(providers) /\ f.out = Returned(SENTINEL)
          ELSE /\ f.asked = Answering(f.key)
               /\ f.prov = Answering(f.key)
               /\ f.out /= Returned(SENTINEL)
               /\ f.out.status = "returned" =>
                     f.out.value.tag = "inst"
                        /\ f.out.value.prov = Answering(f.key)

\* C12: on a cache miss the providers are asked in registration order; the
\* result is the one of the first provider that does not decline, no
\* provider after it is asked, and an earlier provider that declines does
\* not keep a later one from answering.
C12_FirstProviderAnswers ==
    /\ \A t \in Threads : \A i \in 1..Len(frames[t]) :
          C12_FrameInOrder(frames[t][i])
    /\ \A t \in Threads :
          (res[t].key \in Keys /\ res[t].asked > 0) =>
             IF Answering(res[t].key) = 0
             THEN /\ res[t].asked = Len(providers)
                  /\ res[t].provide = Returned(SENTINEL)
             ELSE /\ res[t].asked = Answering(res[t].key)
                  /\ res[t].provide /= Returned(SENTINEL)
                  /\ res[t].provide.status = "returned" =>
                        res[t].provide.value.prov = Answering(res[t].key)

\* One thread got S from the first provider although the second provider
\* holds S as well and was not asked; the other got N from the second
\* provider after the first one declined.
C12_Witness ==
    /\ Len(providers) = 2
    /\ "S" \in DOMAIN providers[1] /\ "S" \in DOMAIN providers[2]
    /\ "N" \notin DOMAIN providers[1] /\ "N" \in DOMAIN providers[2]
    /\ res["t1"].key = "S" /\ res["t1"].asked = 1
    /\ res["t1"].provide = Returned(Instance("S", 1, 1))
    /\ res["t2"].key = "N" /\ res["t2"].asked = 2
    /\ res["t2"].provide = Returned(Instance("N", 2, 1))

\* ---------------------------------------------------------------- C13
\* The dependencies the call of thread t has to resolve for d: none when d
\* was in the cache before this call wrote to it, the arguments of d's
\* factory otherwise.
NeedsFor(t, d) ==
    IF d \in DOMAIN singletons /\ d \notin stored[t] THEN {} ELSE NeedsOf(d)

RECURSIVE Reach(_, _, _)
\* The keys reached from the set ks in at most n steps along NeedsFor.
Reach(t, ks, n) ==
    IF n = 0 THEN ks
    ELSE Reach(t, ks \cup UNION {NeedsFor(t, d) : d \in ks}, n - 1)

ReachFrom(t, k) == Reach(t, {k}, Cardinality(Keys))

OnCycle(t, d) == d \in Reach(t, NeedsFor(t, d), Cardinality(Keys))

\* The graph reachable from k has no cycle.
Acyclic(t, k) == \A d \in ReachFrom(t, k) : ~OnCycle(t, d)

\* Every key reachable from k is cached or registered with a factory whose
\* body returns.
AllSucceed(t, k) ==
    \A d \in ReachFrom(t, k) :
        \/ d \in DOMAIN singletons /\ d \notin stored[t]
        \/ Answering(d) /= 0 /\ ~providers[Answering(d)][d].raises

\* The holder of the instantiation lock, and any thread while the lock is
\* free, can run its next statement; the nesting of provide() calls on a
\* thread is bounded by the number of keys.
C13_NeverStuck ==
    \A t \in Threads :
        /\ (Busy(t) /\ lockOwner \in {NoThread, t}) => ENABLED ThreadStep(t)
        /\ Len(frames[t]) <= Cardinality(Keys) + 1
        /\ lockOwner = t => lockCount <= Cardinality(Keys) + 1

\* What container[k] ends with, by the shape of the graph below k.
C13_OutcomeByGraph ==
    [][\A t \in Threads, k \in Keys :
        (Completes(t, k) /\ AllSucceed(t, k)) =>
            IF Acyclic(t, k)
            THEN /\ res'[t].get.status = "returned"
                 /\ res'[t].get.value.tag \in {"inst", "user"}
            ELSE IsCycleError(res'[t].get)]_vars

\* C13: a factory that asks the container for its dependencies on its own
\* thread never blocks on the instantiation lock, and every container[k]
\* ends: with an instance when the graph below k is acyclic and every
\* factory in it returns, with a cycle error when the graph holds a cycle and
\* nothing else fails.
C13_GetTerminates ==
    /\ []C13_NeverStuck
    /\ C13_OutcomeByGraph
    /\ \A t \in Threads : Busy(t) ~> ~Busy(t)

\* D, built from S and N by nested provide() calls under the lock its thread
\* already held, was returned by one thread; the other thread's get of C,
\* which reaches the cycle A -> B -> A, ended with the cycle error.
C13_Witness ==
    \E t, u \in Threads :
        /\ GotInstance(t, "D")
        /\ res[t].asked > 0
        /\ res[u].key = "C"
        /\ IsCycleError(res[u].get)
        /\ lockOwner = NoThread

\* ---------------------------------------------------------------- C14
\* A Build call that carries neither extra positional nor named arguments.
NoArguments(req) == req.build /\ req.args = <<>> /\ req.kwargs = <<>>

\* C14: Build(K) without extra arguments can be constructed and asked for,
\* and behaves as the bare key K: the two are the same dict key,
\* container[Build(K)] ends as container[K] does (the item of K's factory
\* called without Build arguments, or the not-found error when K is not
\* registered), and the item of a singleton factory sits in K's cache slot.
C14_BuildWithoutArgumentsIsBareKey ==
    (fres.op = "get" /\ NoArguments(fres.key)) =>
        LET w == fres.key.wrapped
        IN /\ Evaluate(fres.key).status = "returned"
           /\ SameKey(fres.key, Bare(w))
           /\ IF w \in DOMAIN factories
              THEN /\ fres.out.status = "returned"
                   /\ fres.out.value.args = CallArgs(Bare(w), factories[w])
                   /\ fres.out.value.kwargs = <<>>
                   /\ factories[w].singleton =>
                         /\ Cached(Bare(w))
                         /\ CachedItem(Bare(w)) = fres.out.value
              ELSE /\ fres.out.status = "raised"
                   /\ fres.out.exc[1].type = "DependencyNotFoundError"

\* ---------------------------------------------------------------- C15
\* item is an object built for key: by the factory registered for key's base
\* key, from key's own extra arguments.
MadeFor(item, key) ==
    /\ item.tag = "built"
    /\ key.wrapped \in DOMAIN factories
    /\ item.func = factories[key.wrapped].func
    /\ item.args = CallArgs(key, factories[key.wrapped])
    /\ item.kwargs = key.kwargs

\* Every cache slot holds an object built for the key of that slot, two
\* slots never hold the same object, and what container[key] returned was
\* built for key.
C15_SlotPerKey ==
    /\ \A c \in DOMAIN singletons :
          /\ MadeFor(singletons[c], c)
          /\ factories[c.wrapped].singleton
          /\ \A d \in DOMAIN singletons :
                singletons[c].n = singletons[d].n => c = d
    /\ (fres.op = "get" /\ fres.out.status = "returned") =>
          MadeFor(fres.out.value, fres.key)

\* A container[key] for a registered base key either finds key's own slot
\* filled and calls no factory, or makes exactly one factory call, with the
\* arguments of key, whose new object it returns.
C15_OneCallPerKey ==
    [][(nops' /= nops /\ fres'.op = "get"
           /\ fres'.key.wrapped \in DOMAIN factories
           /\ Evaluate(fres'.key).status = "returned") =>
         IF fres'.key \in DOMAIN singletons
         THEN /\ invoked' = invoked
              /\ fres'.out = Returned(singletons[fres'.key])
         ELSE /\ invoked' = Append(invoked, ProvideCall(fres'.key))
              /\ fres'.out.status = "returned"
              /\ fres'.out.value.n = Len(invoked')
              /\ \A c \in DOMAIN singletons :
                    singletons[c] /= fres'.out.value
      ]_vars

RegisterStep == nops' /= nops /\ fres'.op = "register"

RaisedType(out, type) == out.status = "raised" /\ out.exc[1].type = type

\* C16: register fails with ValueError when the factory is not callable or
\* the key is None, and with DuplicateDependencyError when a callable is
\* registered for a key that is already registered; a failing register
\* leaves _factories as it was, a successful one adds the key and changes no
\* other entry, and no other call changes an entry: the first registration
\* of a key stays the one in the registry.
C16_RegisterRejects ==
    [][/\ RegisterStep =>
            LET dependency == fres'.key.wrapped
                factory == fres'.factory
            IN /\ (~IsCallable(factory) \/ dependency = NoneKey) =>
                     RaisedType(fres'.out, "ValueError")
               /\ (IsCallable(factory) /\ dependency \in DOMAIN factories) =>
                     RaisedType(fres'.out, "DuplicateDependencyError")
               /\ fres'.out.status = "raised" => factories' = factories
               /\ fres'.out.status = "returned" =>
                     /\ dependency \notin DOMAIN factories
                     /\ DOMAIN factories' = DOMAIN factories \cup {dependency}
                     /\ factories'[dependency].func = factory
       /\ \A k \in DOMAIN factories :
             k \in DOMAIN factories' /\ factories'[k] = factories[k]
       /\ ~RegisterStep => factories' = factories
      ]_vars

\* K was registered with f; registering g for K has just failed with the
\* duplicate error and f is still the factory of K.
C16_Witness ==
    /\ fres.op = "register"
    /\ fres.key = Bare("K")
    /\ fres.factory = "g"
    /\ RaisedType(fres.out, "DuplicateDependencyError")
    /\ DOMAIN factories = {"K"}
    /\ factories["K"].func = "f"

\* ---------------------------------------------------------------- C17
\* This step is a call of FactoryProvider.provide with a constructed key.
ProvideStep ==
    /\ nops' /= nops
    /\ fres'.op = "provide"
    /\ Evaluate(fres'.key).status = "returned"

\* C17: provide returns None and calls no factory for a key whose base key
\* is not registered; for a registered base key it makes one factory call
\* whose positional arguments are the base key (exactly when
\* takes_dependency is set) followed by the key's extra positional arguments
\* in order, whose named arguments are the key's, and it returns the object
\* of that call marked with the singleton flag of the registration.
C17_ProvidePassesArguments ==
    [][ProvideStep =>
         LET key == fres'.key
             w == key.wrapped
         IN IF w \notin DOMAIN factories
            THEN /\ fres'.out = Returned(PyNone)
                 /\ invoked' = invoked
            ELSE /\ Len(invoked') = Len(invoked) + 1
                 /\ SubSeq(invoked', 1, Len(invoked)) = invoked
                 /\ LET c == invoked'[Len(invoked')]
                        r == fres'.out.value
                    IN /\ c.func = factories[w].func
                       /\ c.args = IF factories[w].takes_dependency
                                   THEN <<w>> \o key.args
                                   ELSE key.args
                       /\ c.kwargs = key.kwargs
                       /\ fres'.out.status = "returned"
                       /\ r.tag = "DependencyInstance"
                       /\ r.singleton = factories[w].singleton
                       /\ r.item = Built(c.func, c.args, c.kwargs,
                                         Len(invoked'))
      ]_vars

\* K is registered with takes_dependency and as non-singleton; provide was
\* asked for Build(K, 2, 1): the factory got K, 2, 1 in that order.
C17_Witness ==
    /\ fres.op = "provide"
    /\ fres.key = BuildCall("K", <<"2", "1">>, <<>>)
    /\ "K" \in DOMAIN factories
    /\ factories["K"].takes_dependency
    /\ ~factories["K"].singleton
    /\ fres.out.status = "returned"
    /\ fres.out.value.tag = "DependencyInstance"
    /\ ~fres.out.value.singleton
    /\ fres.out.value.item.args = <<"K", "2", "1">>
    /\ invoked[Len(invoked)].args = <<"K", "2", "1">>

\* ---------------------------------------------------------------- C18
\* This step is a call of ResourceProvider.provide.
ResourceProvideStep == nops' /= nops /\ fres'.op = "resource.provide"

NotFound(out) == RaisedType(out, "LookupError")

MatchesAsciiWord(s) ==
    /\ Len(s) >= 1
    /\ \A i \in 1..Len(s) : s[i] \in AsciiWordChars

\* C19: register fails with ValueError for every namespace that is not a
\* string or does not consist of one or more characters of [A-Za-z0-9_]
\* (the empty string, a trailing newline, a non-ASCII letter), and no such
\* namespace ever gets into the getter registry.
C19_InvalidNamespaceRejected ==
    /\ \A ns \in DOMAIN getters : MatchesAsciiWord(ns)
    /\ (fres.op = "resource.register"
          /\ (~fres.key.str \/ ~MatchesAsciiWord(fres.key.chars))) =>
             RaisedType(fres.out, "ValueError")

\* ---------------------------------------------------------------- C20
\* The keys of the collection's tag in the order they were tagged.
TaggedOrder ==
    [i \in 1..Len(TaggedItems(collection.name)) |->
        TaggedItems(collection.name)[i].dependency]

\* The collection holds one instance per position reached so far and one
\* getter per position not reached yet; the container was asked exactly once
\* for each key that has an instance, in the order the keys were tagged, and
\* never for the same key twice; every generator has yielded the first
\* instances of the collection, in that order, and a generator that ended
\* has yielded all of them.
C20_ResolvedOnceInOrder ==
    IF ~collection.made THEN invoked = <<>>
    ELSE LET c == collection
             order == TaggedOrder
         IN /\ Len(c.tags) = Len(order)
            /\ Len(c.instances) + Len(c.getters) = Len(order)
            /\ Len(invoked) = Len(c.instances)
            /\ \A i \in 1..Len(c.instances) :
                  /\ invoked[i] = Resolve(order[i])
                  /\ c.instances[i] = Resolved(order[i], i)
                  /\ \A j \in 1..Len(c.instances) :
                        invoked[i] = invoked[j] => i = j
            /\ \A g \in Iters :
                  /\ Len(iters[g].yielded) <= Len(c.instances)
                  /\ iters[g].yielded
                        = SubSeq(c.instances, 1, Len(iters[g].yielded))
                  /\ iters[g].phase = "done" =>
                        /\ iters[g].yielded = c.instances
                        /\ Len(c.instances) = Len(order)

\* Making the collection asks the container for nothing; the container is
\* asked for a key only in the step in which a generator that had yielded
\* every instance made so far moves on to the next position.
C20_ResolvedWhenReached ==
    [][/\ (~collection.made /\ collection'.made) =>
             /\ invoked' = invoked
             /\ collection'.instances = <<>>
       /\ invoked' /= invoked =>
             /\ Len(invoked') = Len(invoked) + 1
             /\ fres'.op = "next"
             /\ iters[fres'.key].yielded = collection.instances
             /\ iters'[fres'.key].yielded = collection'.instances
             /\ fres'.out = Returned(
                    collection'.instances[Len(collection'.instances)])
      ]_vars

\* C20: creating the tagged collection resolves no tagged key; a key is
\* resolved through the container only when an iteration first reaches its
\* position; over any sequence of complete or partial iterations of one
\* collection each key is resolved at most once, and every iteration yields
\* the same instances in the order the keys were tagged.
C20_LazyTaggedCollection ==
    []C20_ResolvedOnceInOrder /\ C20_ResolvedWhenReached

\* X, then Y, were tagged t.  One generator of the collection has yielded
\* both instances, a second one has yielded the first: the container was
\* asked twice in all, for X and then for Y, and the second generator got
\* the instance the first one had got.
C20_Witness ==
    /\ collection.made
    /\ TaggedOrder = <<"X", "Y">>
    /\ invoked = <<Resolve("X"), Resolve("Y")>>
    /\ collection.instances = <<Resolved("X", 1), Resolved("Y", 2)>>
    /\ iters["i1"].yielded = collection.instances
    /\ iters["i2"].yielded = <<Resolved("X", 1)>>
    /\ fres.op = "next" /\ fres.key = "i2"
    /\ fres.out = Returned(Resolved("X", 1))

\* ---------------------------------------------------------------- C21
\* The container was asked at most once for each tagged key, position i of
\* the collection holds the resolution of the i-th tagged key, every
\* generator has yielded the first instances of the collection in that
\* order (so two generators hold the same instance at every position both
\* have reached), no generator ends with an IndexError, and a generator
\* that ended has yielded one instance per tag.
C21_OnceInOrderForAll ==
    collection.made =>
       LET c == collection
           order == TaggedOrder
       IN /\ \A i, j \in 1..Len(invoked) : invoked[i] = invoked[j] => i = j
          /\ Len(invoked) <= Len(order)
          /\ Len(c.instances) <= Len(order)
          /\ \A i \in 1..Len(c.instances) :
                \E n \in 1..Len(invoked) :
                   /\ invoked[n] = Resolve(order[i])
                   /\ c.instances[i] = Resolved(order[i], n)
          /\ \A g \in Iters :
                /\ Len(iters[g].yielded) <= Len(c.instances)
                /\ iters[g].yielded
                      = SubSeq(c.instances, 1, Len(iters[g].yielded))
                /\ iters[g].phase = "done" =>
                      /\ Len(iters[g].yielded) = Len(c.tags)
                      /\ Len(c.tags) = Len(order)
          /\ \A g, h \in Iters :
                \A k \in 1..Len(iters[g].yielded) :
                   k <= Len(iters[h].yielded) =>
                      iters[g].yielded[k] = iters[h].yielded[k]
          /\ ~(fres.op = "next" /\ RaisedType(fres.out, "IndexError"))

\* The statements between popleft() and append() are run by the holder of
\* the lock only.
C21_LockGuardsFill ==
    \A g \in Iters :
       iters[g].phase \in {"locked", "call", "unlock"} => collection.lock = g

\* C21: when two threads iterate one tagged collection at the same time,
\* under every interleaving each getter is called at most once, every
\* generator that ends has yielded len(collection) items, and all
\* generators see the same instance at the same position, position i
\* holding the resolution of the i-th tagged key.
C21_ConcurrentIteration ==
    [](C21_OnceInOrderForAll /\ C21_LockGuardsFill)

\* X, then Y, were tagged t.  Both threads found position 1 missing; i1
\* took the lock and filled it with Y's instance while i2 waited, then i2
\* took the lock, found no getter left, and is about to yield position 1:
\* the instance i1 has yielded.
C21_Witness ==
    /\ collection.made
    /\ TaggedOrder = <<"X", "Y">>
    /\ invoked = <<Resolve("X"), Resolve("Y")>>
    /\ collection.instances = <<Resolved("X", 1), Resolved("Y", 2)>>
    /\ iters["i1"].yielded = collection.instances
    /\ iters["i2"].phase = "yield" /\ iters["i2"].getter = ""
    /\ iters["i2"].yielded = <<Resolved("X", 1)>>

\* ---------------------------------------------------------------- C22
\* Whether a key is a Tagged object.
IsTagged(key) == key.wrapped = "Tagged"

\* No Tagged object is a key of the cache.
C22_NoCacheEntry == \A key \in DOMAIN singletons : ~IsTagged(key)

\* A get of a Tagged key leaves the cache as it was and returns a
\* collection that was not handed out before and holds no instance yet.
C22_NewCollectionEachGet ==
    [][(fres'.op = "get" /\ IsTagged(fres'.key) /\ nops' = nops + 1) =>
          /\ singletons' = singletons
          /\ invoked' = invoked
          /\ fres'.out.status = "returned"
          /\ fres'.out.value = collection'
          /\ collection'.id > collection.id
          /\ collection'.instances = <<>>
      ]_vars

\* Every instance inside a collection was built by the container's factory
\* for one of the tagged keys (the factory was given the key, which the
\* instance remembers), and is the container's cached instance of that key
\* when the key is a singleton.
C22_InstancesAreResolutions ==
    \A i \in 1..Len(collection.instances) :
       LET d == collection.instances[i].args[1]
       IN /\ \E k \in 1..Len(TaggedOrder) : TaggedOrder[k] = d
          /\ d \in DOMAIN factories
          /\ collection.instances[i].func = factories[d].func
          /\ factories[d].singleton =>
                /\ Cached(Bare(d))
                /\ collection.instances[i] = CachedItem(Bare(d))

\* C22: the tag provider's result is never a singleton: a request for a
\* Tagged key creates no cache entry and every such request builds a new
\* collection, while the instances inside a collection are the container's
\* own resolutions of the tagged keys (the cached instance for a singleton
\* key).
C22_TaggedNeverSingleton ==
    /\ [](C22_NoCacheEntry /\ C22_InstancesAreResolutions)
    /\ C22_NewCollectionEachGet

\* X is a singleton tagged t.  A first collection was asked for and
\* iterated, which built and cached X's instance; a second collection was
\* then asked for, a different object, and its generator has yielded the
\* same instance; the cache holds X's entry only.
C22_Witness ==
    /\ collection.made /\ collection.id = 2
    /\ TaggedOrder = <<"X">>
    /\ "X" \in DOMAIN factories /\ factories["X"].singleton
    /\ DOMAIN singletons = {Bare("X")}
    /\ Len(invoked) = 1
    /\ collection.instances = <<singletons[Bare("X")]>>
    /\ iters["i1"].yielded = collection.instances

\* ---------------------------------------------------------------- C23
\* Whether every element of tags is a string or a Tag.
AllTags(tags) == \A i \in 1..Len(tags) : tags[i].kind \in {"str", "Tag"}

\* Whether dependency d carries the tag name in the dict td.
Carries(td, d, name) ==
    /\ name \in DOMAIN td
    /\ \E k \in 1..Len(td[name]) : td[name][k].dependency = d

\* Whether a name in tags is applied to d already: before the call, or
\* earlier in tags.
AppliedTwice(td, d, tags) ==
    \E i \in 1..Len(tags) :
       \/ Carries(td, d, tags[i].name)
       \/ \E j \in 1..(i - 1) : tags[j].name = tags[i].name

\* C23: register(key, tags), with tags that are strings or Tags, raises
\* DuplicateTagError exactly when a tag name in tags is already applied to
\* key, by an earlier call or earlier in the same call; otherwise it
\* returns, and key then carries every name in tags: another key carrying
\* the name, or key carrying other names, does not make it fail.
C23_DuplicateTagExactly ==
    [][(fres'.op = "tag.register" /\ AllTags(fres'.key.tags)) =>
          LET d == fres'.key.dependency
              tags == fres'.key.tags
          IN /\ RaisedType(fres'.out, "DuplicateTagError")
                   <=> AppliedTwice(tagged, d, tags)
             /\ ~AppliedTwice(tagged, d, tags) =>
                   /\ fres'.out = Returned(PyNone)
                   /\ \A i \in 1..Len(tags) : Carries(tagged', d, tags[i].name)
             /\ \A e \in TaggedKeys, name \in TagNames :
                   Carries(tagged, e, name) => Carries(tagged', e, name)
      ]_vars

\* Y carries t and X carries u; register(X, [t]) has returned, and X
\* carries t as well.
C23_Witness ==
    /\ fres.op = "tag.register"
    /\ fres.key = [dependency |-> "X", tags |-> <<StrTag("t")>>]
    /\ fres.out = Returned(PyNone)
    /\ "t" \in DOMAIN tagged /\ "u" \in DOMAIN tagged
    /\ Len(tagged["t"]) = 2
    /\ tagged["t"][1].dependency = "Y" /\ tagged["t"][2].dependency = "X"
    /\ Carries(tagged, "X", "u")

\* ------------------------------------------------------- C24, C25, C27
\* The number of receiver arguments of a call that the caller did not write.
Receivers(shape) == Len(WrappedBound(shape)) + Len(Prepended(shape))

\* The declared parameters of the callable of call c, as blueprint entries,
\* and how many of the first of them the call fills by position.
Declared(c) == Blueprint(c.shape, c.entries)
ByPosition(c) == Receivers(c.shape) + Len(c.args)

\* The parameters of call c the caller left out that have a key, by index.
LeftOut(c) ==
    {i \in 1..Len(Declared(c)) :
        /\ i > ByPosition(c)
        /\ Declared(c)[i].arg_name \notin DOMAIN c.kwargs
        /\ Declared(c)[i].dependency /= NoneKey}

\* The keys asked of the container by the last call, and the call of the
\* wrapped callable it made, if any.
AskedKeys ==
    {invoked[i].args[1] : i \in {j \in 1..Len(invoked) :
                                    invoked[j].func = "provide"}}
WrappedInvoked == \E i \in 1..Len(invoked) : invoked[i].func = "wrapped"
WrappedCall == invoked[Len(invoked)]

\* The left-out parameters of c that are required and whose key is not in
\* the container.
Unresolvable(c) ==
    {i \in LeftOut(c) :
        /\ Declared(c)[i].required
        /\ Declared(c)[i].dependency \notin DOMAIN singletons}

\* What C24 says of call c.
InjectsOrFails(c) ==
    IF Unresolvable(c) /= {}
    THEN /\ ~WrappedInvoked
         /\ \E i \in Unresolvable(c) :
               fres.out = Raised(DependencyNotFoundError(Declared(c)[i].dependency))
    ELSE /\ WrappedInvoked
         /\ \A i \in LeftOut(c) :
               LET e == Declared(c)[i]
               IN IF e.dependency \in DOMAIN singletons
                  THEN /\ e.arg_name \in DOMAIN WrappedCall.kwargs
                       /\ WrappedCall.kwargs[e.arg_name] = singletons[e.dependency]
                  ELSE /\ e.arg_name \notin DOMAIN WrappedCall.kwargs
                       /\ fres.out.status = "returned" =>
                             fres.out.value[i] = Default(e.arg_name)

\* C24: a parameter the caller left out whose key the container cannot
\* resolve makes the call fail with DependencyNotFoundError for that key,
\* the wrapped callable not being called, when it is required, and is left
\* to its declared default when it is optional; a left-out parameter whose
\* key resolves receives the instance.
C24_UnresolvableParameter ==
    fres.op = "call" => InjectsOrFails(fres.key)

\* What C25 says of call c.
KeepsCallerArguments(c) ==
    /\ \A i \in 1..Len(Declared(c)) :
          LET e == Declared(c)[i]
          IN /\ (i <= ByPosition(c) \/ e.arg_name \in DOMAIN c.kwargs) =>
                   e.dependency \notin AskedKeys
             /\ (WrappedInvoked /\ e.arg_name \in DOMAIN c.kwargs) =>
                   /\ e.arg_name \in DOMAIN WrappedCall.kwargs
                   /\ WrappedCall.kwargs[e.arg_name] = c.kwargs[e.arg_name]
             /\ (WrappedInvoked /\ e.dependency = NoneKey
                   /\ e.arg_name \notin DOMAIN c.kwargs) =>
                   e.arg_name \notin DOMAIN WrappedCall.kwargs
    /\ WrappedInvoked =>
          /\ Len(WrappedCall.args) = ByPosition(c)
          /\ SubSeq(WrappedCall.args, Receivers(c.shape) + 1, ByPosition(c))
                = c.args
          /\ \A i \in 1..Len(Declared(c)) :
                (i <= ByPosition(c)
                   /\ Declared(c)[i].arg_name \in DOMAIN WrappedCall.kwargs) =>
                      Declared(c)[i].arg_name \in DOMAIN c.kwargs

\* C25: the container is not asked for a parameter the caller passed by
\* position or by keyword, and the wrapped callable receives the caller's
\* value for it, once; a parameter without key is not touched; the
\* caller's positional arguments are passed on as they are.
C25_CallerArgumentsKept ==
    fres.op = "call" => KeepsCallerArguments(fres.key)

\* C27: for every call shape (function, method, classmethod and
\* staticmethod, through the class or an instance, the wrapper inside or
\* outside classmethod/staticmethod), the number of leading blueprint
\* entries skipped is the number of receiver arguments bound without the
\* caller plus the number of positional arguments of the caller.
C27_SkipsReceiversAndPositionals ==
    fres.op = "call" => fres.key.offset = ByPosition(fres.key)

\* ---------------------------------------------------------------- C26
\* The explicit override given for the i-th parameter, NoneKey if none.
Override(q, i) ==
    LET name == q.arguments[i].name
    IN IF q.arg_map.kind = "iterable"
       THEN (IF i <= Len(q.arg_map.seq) THEN q.arg_map.seq[i] ELSE NoneKey)
       ELSE IF name \in DOMAIN q.arg_map.map THEN q.arg_map.map[name]
       ELSE NoneKey

\* Whether a flag (use_names, use_type_hints) covers a parameter name.
Covers(flag, name) ==
    IF flag.kind = "bool" THEN flag.value ELSE name \in flag.names

\* The declared type of the i-th parameter as far as it can be a key: it is
\* declared, type hints are in use for the parameter, and it is neither a
\* builtin nor a typing type; NoneKey otherwise.
DeclaredType(q, i) ==
    LET name == q.arguments[i].name
    IN IF /\ name \in DOMAIN q.type_hints
          /\ Covers(q.use_type_hints, name)
          /\ q.type_hints[name] \notin BuiltinTypes \cup TypingTypes
       THEN q.type_hints[name] ELSE NoneKey

\* The key the precedence gives the i-th parameter.
KeyByPrecedence(q, i) ==
    IF Override(q, i) /= NoneKey THEN Override(q, i)
    ELSE IF DeclaredType(q, i) /= NoneKey THEN DeclaredType(q, i)
    ELSE IF Covers(q.use_names, q.arguments[i].name) THEN q.arguments[i].name
    ELSE NoneKey

\* C26: the blueprint has one record per declared parameter, in
\* declaration order, required exactly when the parameter has no default,
\* and its key is the explicit override unless that is None, else the
\* declared type unless it is a builtin or typing type (or type hints are
\* not in use for the parameter), else the parameter name if name mode
\* covers the parameter, else no key.
C26_BlueprintByPrecedence ==
    fres.op = "blueprint" =>
       LET q == fres.key
           bp == fres.out.value
       IN /\ fres.out.status = "returned"
          /\ Len(bp) = Len(q.arguments)
          /\ \A i \in 1..Len(bp) :
                /\ bp[i].arg_name = q.arguments[i].name
                /\ bp[i].required = ~q.arguments[i].has_default
                /\ bp[i].dependency = KeyByPrecedence(q, i)

\* f(a: int, b: Service = ...) with arg_map (None,) and use_names=True: the
\* None override and the builtin hint of a hide nothing, a gets its own
\* name; b gets its declared type, which comes before the name.
C26_Witness ==
    /\ fres.op = "blueprint"
    /\ fres.key.arguments = <<Argument("a", FALSE), Argument("b", TRUE)>>
    /\ fres.key.arg_map.seq = <<NoneKey>>
    /\ fres.key.use_names = [kind |-> "bool", value |-> TRUE, names |-> {}]
    /\ fres.key.type_hints = DictSet(DictSet(<<>>, "a", "int"), "b", "Service")
    /\ fres.out.value = <<Injection("a", TRUE, "a"),
                          Injection("b", FALSE, "Service")>>

\* ------------------------------------------------------------------ C28
\* The keys of a sequence.
KeysOf(seq) == {seq[i] : i \in 1..Len(seq)}

\* A call whose key is on the stack: pushed, and not yet popped.
InStack(f) == f.pushed /\ f.pc /= "release"

\* The keys pushed by the calls of one thread, outermost first.
PushedKeys(fs) ==
    LET sel == SelectSeq(fs, InStack)
    IN  [i \in 1..Len(sel) |-> sel[i].key]

\* The stack holds exactly the keys pushed by the calls in progress of the
\* thread that holds the lock, and nothing when no resolution is in progress;
\* only a call that pushed its key is about to pop.
C28_StackIsCallsInProgress ==
    /\ dependencies = KeysOf(stack)
    /\ IF lockOwner = NoThread
       THEN stack = <<>>
       ELSE stack = PushedKeys(frames[lockOwner])
    /\ \A t \in Threads :
        /\ t /= lockOwner => PushedKeys(frames[t]) = <<>>
        /\ \A i \in 1..Len(frames[t]) :
            frames[t][i].pc = "pop" => frames[t][i].pushed
    /\ (\A t \in Threads : ~Busy(t)) => stack = <<>> /\ dependencies = {}

\* A nested call starts on the keys pushed by the calls around it, and while
\* it runs those calls keep their keys on the stack.
C28_CallStart ==
    [][\A t \in Threads :
        /\ (Busy(t) /\ Len(frames'[t]) > Len(frames[t]))
            => /\ stack = PushedKeys(frames[t])
               /\ stack' = stack
               /\ dependencies' = dependencies
        /\ \A i \in 1..Len(frames'[t]) :
            i < Len(frames[t])
            => /\ frames'[t][i].key = frames[t][i].key
               /\ InStack(frames'[t][i]) = InStack(frames[t][i])]_vars

\* A call that ends, whatever its outcome, leaves on the stack the keys pushed
\* by the calls around it: the stack it started on.
C28_CallEnd ==
    [][\A t \in Threads :
        (Busy(t) /\ Len(frames'[t]) < Len(frames[t]))
        => /\ stack' = stack
           /\ dependencies' = dependencies
           /\ Top(t).pc = "release"
              => /\ stack' = PushedKeys(frames'[t])
                 /\ dependencies' = KeysOf(PushedKeys(frames'[t]))
                 /\ PushedKeys(frames'[t])
                    = PushedKeys(SubSeq(frames[t], 1, Len(frames[t]) - 1))]_vars

\* A key leaves the stack only in the pop of the call that pushed it.
C28_PopOwnPush ==
    [][stack' /= stack /\ Len(stack') <= Len(stack)
        => \E t \in Threads :
            /\ At(t, "pop")
            /\ Top(t).pushed
            /\ Top(t).key = stack[Len(stack)]
            /\ stack' = SubSeq(stack, 1, Len(stack) - 1)
            /\ frames'[t] /= frames[t]]_vars

\* C28: when a call to provide returns or raises (a value, the sentinel, an
\* instantiation error or a cycle error, at any depth) the stack's sequence and
\* its membership set are what they were when the call started; the stack is
\* empty when no resolution is in progress; a push that failed with a cycle
\* error is not followed by a pop.
C28_StackRestored ==
    /\ []C28_StackIsCallsInProgress
    /\ C28_CallStart
    /\ C28_CallEnd
    /\ C28_PopOwnPush

\* A nested call has just failed its push with a cycle error: the keys pushed
\* by the calls around it are still on the stack, in order.
C28_Witness ==
    \E t \in Threads :
        /\ Len(frames[t]) = 3
        /\ At(t, "release")
        /\ IsCycleError(Top(t).out)
        /\ ~Top(t).pushed
        /\ stack = <<frames[t][1].key, frames[t][2].key>>
        /\ dependencies = {frames[t][1].key, frames[t][2].key}

\* ------------------------------------------------------------------ C29
\* C29: in every reachable state no key is twice in the stack's sequence, and
\* the membership set holds exactly the keys of the sequence.
C29_StackDistinctAndSetAgrees ==
    /\ \A i, j \in 1..Len(stack) : stack[i] = stack[j] => i = j
    /\ \A k \in dependencies : \E i \in 1..Len(stack) : stack[i] = k
    /\ \A i \in 1..Len(stack) : stack[i] \in dependencies
    /\ Cardinality(dependencies) = Len(stack)

\* A call is about to push a key that is already on a stack of two keys.
C29_Witness ==
    \E t \in Threads :
        /\ At(t, "push")
        /\ Len(stack) = 2
        /\ Top(t).key = stack[1]
        /\ dependencies = {stack[1], stack[2]}

\* ------------------------------------------------------------------ C30
\* A call between the taking of the lock and its release belongs to the
\* thread that holds the lock.
InLockedSection(f) == f.pc \in {"push", "check2", "loop", "factory", "pop", "release"}

\* Every call in the locked section is a call of the lock's holder, and the
\* lock is held once for each of them.
C30_SectionHeldByOwner ==
    \A t \in Threads :
        LET held == SelectSeq(frames[t], InLockedSection)
        IN  IF t = lockOwner THEN lockCount = Len(held) ELSE held = <<>>

\* The stack changes only in the push or the pop of the thread that holds the
\* lock, which still holds it afterwards; no other thread takes a step of its
\* own in that step.
C30_MutationUnderLock ==
    [][(stack' /= stack \/ dependencies' /= dependencies)
        => \E t \in Threads :
            /\ lockOwner = t
            /\ lockOwner' = t
            /\ lockCount' = lockCount
            /\ At(t, "push") \/ At(t, "pop")
            /\ \A u \in Threads \ {t} : frames'[u] = frames[u]]_vars

\* The lock is released by its holder, after the pop of the call that pushed.
C30_PopBeforeRelease ==
    [][lockCount' < lockCount
        => \E t \in Threads :
            /\ lockOwner = t
            /\ At(t, "release")
            /\ Top(t).pushed => Len(stack) = Len(PushedKeys(frames[t]))
            /\ stack' = stack]_vars

\* C30: every push and every pop is made by a thread that holds the
\* instantiation lock at that moment, the pop before the lock is released, so
\* no two threads change the stack at the same time.
C30_StackUnderLock ==
    /\ []C30_SectionHeldByOwner
    /\ C30_MutationUnderLock
    /\ C30_PopBeforeRelease

\* One thread is between its push and its pop while the other waits for the
\* lock.
C30_Witness ==
    \E t, u \in Threads :
        /\ t /= u
        /\ lockOwner = t
        /\ At(t, "pop")
        /\ Len(stack) = 2
        /\ At(u, "lock")

\* ------------------------------------------------------------------ C31
\* Thread t holds the lock inside a factory body (its own, or the one around
\* a nested call).
HeldInFactory(t) ==
    /\ lockOwner = t
    /\ \E i \in 1..Len(frames[t]) : frames[t][i].pc = "factory"

\* Thread u's outermost call ends in this step.
CallEnds(u) == Busy(u) /\ frames'[u] = <<>>

\* C31 as stated: while a thread holds the lock inside a factory, no call of
\* another thread completes, whatever its key.
C31_EveryCallerBlocked ==
    [][\A t, u \in Threads :
        (t /= u /\ HeldInFactory(t)) => ~CallEnds(u)]_vars

\* C31, amended: while a thread holds the lock inside a factory, a caller on
\* another thread that did not find its key in the cache waits at the lock
\* and makes no step; the only call that completes is one that finds its key
\* in the cache at its first lookup, and it returns the cached value.
C31_MissingKeyCallerBlocked ==
    /\ [](\A u \in Threads :
            (Busy(u) /\ lockOwner /= u)
            => Len(frames[u]) = 1 /\ Top(u).pc \in {"check1", "lock"})
    /\ [][\A t, u \in Threads :
            (t /= u /\ HeldInFactory(t))
            => /\ At(u, "lock") => frames'[u] = frames[u] /\ res'[u] = res[u]
               /\ CallEnds(u)
                  => /\ At(u, "check1")
                     /\ Top(u).key \in DOMAIN singletons
                     /\ res'[u].provide = Returned(singletons[Top(u).key])
                     /\ UNCHANGED <<singletons, lockOwner, lockCount, stack,
                                    dependencies, calls>>]_vars

\* One thread is inside a factory body, the other waits at the lock for a
\* key that no call is resolving.
C31_Witness ==
    \E t, u \in Threads :
        /\ t /= u
        /\ HeldInFactory(t)
        /\ At(t, "factory")
        /\ At(u, "lock")
        /\ Top(u).key \notin dependencies
        /\ Top(u).key \notin DOMAIN singletons

\* ------------------------------------------------------------------ C32
\* The getter list of every namespace is strictly descending in priority.
StrictlyDescending ==
    \A ns \in DOMAIN getters :
        \A i, j \in 1..Len(getters[ns]) :
            i < j => getters[ns][i].priority > getters[ns][j].priority

\* The namespace already holds a getter of that priority.
PriorityTaken(ns, priority) ==
    \E i \in 1..Len(GettersOf(ns)) : GettersOf(ns)[i].priority = priority

\* A register call with a namespace the provider accepts fails with
\* GetterPriorityConflict exactly when the namespace already holds a getter
\* of that priority, whatever the other namespaces hold, and then changes no
\* list; otherwise the namespace gains one getter of that priority and every
\* other namespace keeps its list.
RegisterConflict ==
    [][\A priority \in Priorities, omit_namespace \in BOOLEAN :
        LET resource_getter == fres'.factory
            namespace == fres'.key
        IN
        (/\ fres'.op = "resource.register"
         /\ ResourceRegister(resource_getter, namespace, priority,
                             omit_namespace)
         /\ namespace.str /\ ReMatchWord(namespace.chars))
        => IF PriorityTaken(namespace.chars, priority)
           THEN /\ RaisedType(fres'.out, "GetterPriorityConflict")
                /\ getters' = getters
           ELSE /\ fres'.out = Returned(PyNone)
                /\ Len(getters'[namespace.chars])
                   = Len(GettersOf(namespace.chars)) + 1
                /\ \E i \in 1..Len(getters'[namespace.chars]) :
                      /\ getters'[namespace.chars][i].priority = priority
                      /\ getters'[namespace.chars][i].getter = resource_getter
                /\ \A ns \in DOMAIN getters :
                      ns /= namespace.chars => getters'[ns] = getters[ns]
      ]_vars

BuildKeysMet ==
    {k \in DOMAIN singletons : k.build}
    \cup (IF /\ fres.op \in {"get", "provide"}
             /\ fres.key.build
             /\ Evaluate(fres.key).status = "returned"
          THEN {Evaluate(fres.key).value}
          ELSE {})

\* The named arguments as a dict: the set of (name, value) pairs.
KwargsDict(b) == {b.kwargs[i] : i \in 1..Len(b.kwargs)}

\* Same base key, same extra positional arguments, same named arguments.
SameParts(a, b) ==
    /\ a.wrapped = b.wrapped
    /\ a.args = b.args
    /\ KwargsDict(a) = KwargsDict(b)

\* C33: two Build objects are equal (__eq__) exactly when they have the same
\* base key, the same extra positional arguments and the same named
\* arguments, and two Build objects that are equal have the same hash.
C33_BuildEqualityByParts ==
    \A a, b \in BuildKeysMet :
        /\ BuildEq(a, b) <=> SameParts(a, b)
        /\ BuildEq(a, b) => BuildHash(a) = BuildHash(b)

\* ------------------------------------------------------------------ C34
RECURSIVE GraphReach(_, _)
\* The keys reached from the set ks in at most n steps along the arguments of
\* the registered factories, whatever the cache holds.
GraphReach(ks, n) ==
    IF n = 0 THEN ks
    ELSE GraphReach(ks \cup UNION {NeedsOf(d) : d \in ks}, n - 1)

\* No key reachable from k needs itself, directly or through other keys.
GraphAcyclic(k) ==
    \A d \in GraphReach({k}, Cardinality(Keys)) :
        d \notin GraphReach(NeedsOf(d), Cardinality(Keys))

\* A push finds its key in flight only when a call around it on the same
\* thread pushed that key.
CycleWithinThread ==
    \A t \in Threads :
        (At(t, "push") /\ InFlight(Top(t).key))
        => \E i \in 1..(Len(frames[t]) - 1) :
              /\ frames[t][i].key = Top(t).key
              /\ InStack(frames[t][i])

\* A call that leaves with a cycle error is on a thread whose calls hold the
\* error's last key twice.
CycleErrorHasOwnCycle ==
    \A t \in Threads :
        (At(t, "release") /\ IsCycleError(Top(t).out) /\ ~Top(t).pushed)
        => \E i \in 1..(Len(frames[t]) - 1) : frames[t][i].key = Top(t).key

\* C34: a cycle error is raised only for a cycle within one thread's
\* resolution: container[k] for a key whose dependency graph has no cycle
\* never ends with a cycle error, whatever the other thread is resolving.
C34_NoSpuriousCycle ==
    /\ [](CycleWithinThread /\ CycleErrorHasOwnCycle)
    /\ [][\A t \in Threads, k \in Keys :
            (Completes(t, k) /\ GraphAcyclic(k))
            => /\ ~IsCycleError(res'[t].get)
               /\ res'[t].get.status = "raised"
                  => \A i \in 1..Len(res'[t].get.exc) :
                        res'[t].get.exc[i].type /= "DependencyCycleError"]_vars

\* One thread is resolving D and, inside D's factory, S; the other thread has
\* asked for S and is about to resolve it.
C34_Witness ==
    \E t, u \in Threads :
        /\ t /= u
        /\ stack = <<"D", "S">>
        /\ lockOwner = t
        /\ Busy(u)
        /\ frames[u][1].key = "S"
        /\ At(u, "lock")

\* ------------------------------------------------------------------ C35
\* C35: a register(key, tags) call that fails with DuplicateTagError or with
\* the ValueError for an element that is not a tag leaves
\* _tagged_dependencies as it was before the call: no tag listed before the
\* offending one is applied.
C35_FailedRegisterChangesNothing ==
    [][\A dependency_id \in TaggedKeys, tags \in TagLists :
        (/\ TagRegisterTags(dependency_id, tags)
         /\ fres'.out.status = "raised")
        => tagged' = tagged]_vars

\* ------------------------------------------------------------------ C36
\* C36: a tagged key that fails to resolve during an iteration leaves the
\* collection consistent: position i holds the resolution of the i-th tagged
\* key (so items() pairs each instance with its own tag), the key that
\* failed keeps its getter and is tried again, and an iteration hands out
\* len(collection) instances, never ending in an IndexError.
C36_ConsistentAfterFailure ==
    collection.made =>
        /\ \A i \in 1..Len(collection.instances) :
              collection.instances[i].args[1] = TaggedOrder[i]
        /\ Len(collection.instances) + Len(collection.getters)
           = Len(collection.tags)
        /\ fres.op = "next" => ~RaisedType(fres.out, "IndexError")
        /\ \A g \in Iters :
              (/\ iters[g].phase = "done"
               /\ fres.op = "next" /\ fres.key = g
               /\ RaisedType(fres.out, "StopIteration"))
              => Len(iters[g].yielded) = Len(collection.tags)

\* ------------------------------------------------------------------ C37
\* A thread is inside list(collection) or inside container[d].
InProgress ==
    \/ \E t \in Threads : Busy(t)
    \/ \E g \in Iters : iters[g].phase \notin {"none", "done"}

\* C37: filling a tagged collection never deadlocks with the container: as
\* long as a thread is inside an iteration of the collection or inside
\* container[d], some thread can run its next statement, whether the
\* collection is iterated by a second thread inside a factory or by a
\* factory on the iterating thread itself.
C37_NoDeadlock == InProgress => ENABLED TagLockStep

\* ------------------------------------------------------------------ C38
\* This step is the first lookup of thread t's top call, and the key is in
\* the cache.
CachedLookup(t) ==
    /\ At(t, "check1")
    /\ Top(t).key \in DOMAIN singletons
    /\ frames'[t] /= frames[t]

\* C38: a provide(k) that finds k in the cache at its first lookup returns
\* the cached value in that step, to the application or to the factory that
\* asked, without taking the lock (which another thread may hold), and
\* leaves the cache, the provider list, the stack and its membership set as
\* they were, no provider being asked and no factory body run.
C38_CachedKeyFastPath ==
    [][\A t \in Threads :
        CachedLookup(t)
        => /\ Len(frames'[t]) = Len(frames[t]) - 1
           /\ frames'[t] = FramesAfter(t, Returned(singletons[Top(t).key]))
           /\ Len(frames[t]) = 1
              => /\ res'[t].provide = Returned(singletons[Top(t).key])
                 /\ res'[t].get = Returned(singletons[Top(t).key])
                 /\ res'[t].asked = 0
           /\ Top(t).asked = 0 /\ ~Top(t).pushed
           /\ UNCHANGED <<singletons, providers, stack, dependencies,
                          lockOwner, lockCount, calls, stored>>]_vars

\* A thread has got the cached value of S from container[S], asking no
\* provider and storing nothing, while the other thread holds the lock
\* inside a factory.
C38_Witness ==
    \E t, u \in Threads :
        /\ t /= u
        /\ ~Busy(t)
        /\ res[t].key = "S"
        /\ "S" \in DOMAIN singletons
        /\ res[t].get = Returned(singletons["S"])
        /\ res[t].asked = 0
        /\ stored[t] = {}
        /\ HeldInFactory(u)

\* ------------------------------------------------------------------ C39
\* The entry of k is the value of the last explicit set or update of k.
PutExplicitly(k) == k \in DOMAIN explicit /\ singletons[k] = explicit[k]

\* The entry of k is an instance built for k by the factory of the provider
\* that answers for k, which marks it singleton.
PutByProvide(k) ==
    /\ singletons[k].tag = "inst"
    /\ singletons[k].id = k
    /\ Answering(k) /= 0
    /\ singletons[k].prov = Answering(k)
    /\ providers[Answering(k)][k].singleton
    /\ singletons[k].n \in 1..calls[k]

C39_EntriesHaveOrigin ==
    \A k \in DOMAIN singletons : PutExplicitly(k) \/ PutByProvide(k)

\* A step of provide changes no entry that exists, and the entry it adds is
\* for the key of the call whose factory has just returned, under the lock.
C39_ProvideOnlyAdds ==
    [][~ExplicitStep
        => /\ \A k \in DOMAIN singletons :
                k \in DOMAIN singletons' /\ singletons'[k] = singletons[k]
           /\ \A k \in (DOMAIN singletons') \ (DOMAIN singletons) :
                \E t \in Threads :
                   /\ At(t, "factory")
                   /\ lockOwner = t
                   /\ Top(t).key = k
                   /\ TopFactory(t).singleton
                   /\ singletons'[k] = Instance(k, Top(t).prov, calls'[k])]_vars

MethodsUnspecified == methods.kind \in {"None", "map"}

\* The variable methods as a new wire(...) call with the same arguments
\* binds it.
FreshDecorator == [methods EXCEPT !.kind = "None", !.names = <<>>]

\* C40: a decorator made by wire(...) with methods unspecified injects every
\* method the class it is applied to defines, and leaves the class as a new
\* wire(...) call with the same arguments would, whatever classes it was
\* applied to before.
C40_WiresEveryClass ==
    [][\A cls \in Classes :
        (WireMethods(cls) /\ MethodsUnspecified)
        => /\ class_dicts'[cls] = WireMethodsOutcome(FreshDecorator, cls).dict
           /\ fres'.out = WireMethodsOutcome(FreshDecorator, cls).out
           /\ methods.dependencies /= "iterable"
              => \A m \in DOMAIN class_dicts[cls] :
                    class_dicts'[cls][m] = class_dicts[cls][m] + 1]_vars

====
